---------------------------- MODULE Spec2Model ----------------------------
(***************************************************************************)
(* Model of the enhanced-filesystem MCP server of mcp-launcher: the path   *)
(* sandbox (index.ts), the line patch tool (EditFilePatchTool) and the     *)
(* directory move/merge tool (MoveDirectoryTool, both revisions kept in    *)
(* the repository).                                                        *)
(*                                                                         *)
(* Strings are sequences of one-character strings, so that startsWith,     *)
(* includes, split and join are computed and not assumed.  A path is such  *)
(* a string.  The filesystem is a function from the absolute paths that    *)
(* exist to their nodes.  A tool call is one action: the handlers never    *)
(* interleave inside one specification of this module.                     *)
(***************************************************************************)
EXTENDS Integers, Sequences, FiniteSets, TLC

VARIABLES
  allowedDirectories, \* EnhancedFilesystemServer.allowedDirectories (argv)
  fs,                 \* the filesystem: absolute path -> node
  call,               \* the request being answered (op and arguments)
  result,             \* the ToolResponse of that request
  pre,                \* the filesystem as it was when the request arrived
  log                 \* the fs calls the handler issued: {<<kind, path>>}

vars == <<allowedDirectories, fs, call, result, pre, log>>

----------------------------------------------------------------------------
(* Bounds of the model                                                     *)

\* longest path string handed to isPathAllowed in SpecSandbox
MaxPathLen == 5

\* most edits in one edit_file_patch request
MaxEdits == 2

\* most symbolic links followed while one path is resolved
MaxLinks == 3

----------------------------------------------------------------------------
(* JavaScript values and string primitives                                 *)

\* An optional request field is <<>> when undefined and <<v>> when it holds v.
Undef == <<>>
Some(v) == <<v>>

\* JavaScript truthiness of a number-or-undefined field: 0 and undefined are falsy
TruthyNum(o) == o # Undef /\ o[1] # 0

\* JavaScript truthiness of a string-or-undefined field: "" and undefined are falsy
TruthyStr(o) == o # Undef /\ o[1] # <<>>

\* String.prototype.startsWith
startsWith(s, prefix) ==
  /\ Len(prefix) <= Len(s)
  /\ SubSeq(s, 1, Len(prefix)) = prefix

\* String.prototype.includes
includes(s, sub) ==
  \E i \in 1..(Len(s) - Len(sub) + 1) : SubSeq(s, i, i + Len(sub) - 1) = sub

\* String.prototype.replace(old, new) with a string pattern: first occurrence only
replaceFirst(s, old, new) ==
  IF ~includes(s, old) THEN s
  ELSE LET i == CHOOSE k \in 1..(Len(s) - Len(old) + 1) :
                   /\ SubSeq(s, k, k + Len(old) - 1) = old
                   /\ \A j \in 1..(k - 1) : SubSeq(s, j, j + Len(old) - 1) # old
       IN SubSeq(s, 1, i - 1) \o new \o SubSeq(s, i + Len(old), Len(s))

\* String.prototype.split(sep) for a one-character separator
RECURSIVE split(_, _)
split(s, sep) ==
  IF \A i \in 1..Len(s) : s[i] # sep THEN <<s>>
  ELSE LET i == CHOOSE k \in 1..Len(s) :
                   s[k] = sep /\ \A j \in 1..(k - 1) : s[j] # sep
       IN <<SubSeq(s, 1, i - 1)>> \o split(SubSeq(s, i + 1, Len(s)), sep)

\* Array.prototype.join(sep)
RECURSIVE join(_, _)
join(parts, sep) ==
  IF parts = <<>> THEN <<>>
  ELSE IF Len(parts) = 1 THEN parts[1]
  ELSE parts[1] \o <<sep>> \o join(Tail(parts), sep)

----------------------------------------------------------------------------
(* node:path on a POSIX host                                               *)

Sep == "/"

\* process.cwd(), the directory relative paths resolve against
Cwd == <<"/", "w">>

\* the segment stack of path.resolve: "" and "." dropped, ".." pops
RECURSIVE normalizeSegs(_, _)
normalizeSegs(segs, acc) ==
  IF segs = <<>> THEN acc
  ELSE LET h == Head(segs) IN
       normalizeSegs(Tail(segs),
         IF h = <<>> \/ h = <<".">> THEN acc
         ELSE IF h = <<".", ".">>
              THEN (IF acc = <<>> THEN acc ELSE SubSeq(acc, 1, Len(acc) - 1))
              ELSE Append(acc, h))

RECURSIVE fromSegs(_)
fromSegs(segs) ==
  IF segs = <<>> THEN <<>> ELSE <<Sep>> \o Head(segs) \o fromSegs(Tail(segs))

\* path.resolve(p): absolute, normalized, no trailing separator
resolve(p) ==
  LET abs  == IF p # <<>> /\ p[1] = Sep THEN p ELSE Cwd \o <<Sep>> \o p
      segs == normalizeSegs(split(abs, Sep), <<>>)
  IN IF segs = <<>> THEN <<Sep>> ELSE fromSegs(segs)

\* path.join(dir, name) for a resolved dir and a directory entry name
pathJoin(dir, name) == IF dir = <<Sep>> THEN dir \o name ELSE dir \o <<Sep>> \o name

\* path.dirname of a resolved path
dirname(p) ==
  LET segs == normalizeSegs(split(p, Sep), <<>>)
  IN IF Len(segs) <= 1 THEN <<Sep>> ELSE fromSegs(SubSeq(segs, 1, Len(segs) - 1))

\* the last segment of a resolved path (a directory entry's name)
basename(p) ==
  LET segs == normalizeSegs(split(p, Sep), <<>>)
  IN IF segs = <<>> THEN <<>> ELSE segs[Len(segs)]

----------------------------------------------------------------------------
(* PathSandbox: EnhancedFilesystemServer.isPathAllowed                     *)

isPathAllowedIn(roots, filePath) ==
  LET resolvedPath == resolve(filePath) IN
  \E i \in 1..Len(roots) :
    LET resolvedAllowedDir == resolve(roots[i]) IN
    startsWith(resolvedPath, resolvedAllowedDir)

isPathAllowed(filePath) == isPathAllowedIn(allowedDirectories, filePath)

\* what the specification asks of the sandbox: some root is the path itself or
\* an ancestor directory of it
RootIsAncestorOrSelf(roots, filePath) ==
  LET segs == normalizeSegs(split(resolve(filePath), Sep), <<>>) IN
  \E i \in 1..Len(roots) :
    LET rsegs == normalizeSegs(split(resolve(roots[i]), Sep), <<>>) IN
    /\ Len(rsegs) <= Len(segs)
    /\ SubSeq(segs, 1, Len(rsegs)) = rsegs

----------------------------------------------------------------------------
(* The filesystem and the fs/promises calls the tools make (POSIX results) *)
(* A handler threads st = [fs, log, err]: err is the code of the exception *)
(* now propagating, or NoErr.                                              *)

NoErr == "none"

\* the time of the request: what a write stamps on a file (Stats.mtime)
Now == 9

\* readable: the process may read the node (list it, if it is a directory)
DirNode == [kind |-> "dir", data |-> <<>>, pad |-> 0, mtime |-> 0, readable |-> TRUE]
\* a directory the process has no permission to list
LockedDirNode == [DirNode EXCEPT !.readable = FALSE]
FileNode(data, pad) ==
  [kind |-> "file", data |-> data, pad |-> pad, mtime |-> Now, readable |-> TRUE]
\* a file last written at the earlier time t
FileAt(data, t) ==
  [kind |-> "file", data |-> data, pad |-> 0, mtime |-> t, readable |-> TRUE]

\* a symbolic link to the absolute path target
LinkNode(target) ==
  [kind |-> "symlink", data |-> target, pad |-> 0, mtime |-> 0, readable |-> TRUE]

\* Stats.size
sizeOf(node) == Len(node.data) + node.pad

\* a filesystem holding nothing but the root directory
EmptyFs == (<<Sep>> :> DirNode)

exists(f, p) == p \in DOMAIN f
isDirectory(f, p) == exists(f, p) /\ f[p].kind = "dir"
isFile(f, p) == exists(f, p) /\ f[p].kind = "file"

\* the entries of directory p
children(f, p) == {q \in DOMAIN f : q # p /\ dirname(q) = p}

\* p and everything below it
subtree(f, p) == {q \in DOMAIN f : q = p \/ startsWith(q, pathJoin(p, <<>>))}

\* the proper ancestors of a resolved path
RECURSIVE ancestors(_)
ancestors(p) == IF p = <<Sep>> THEN {} ELSE {dirname(p)} \cup ancestors(dirname(p))

\* the errno of reaching a path that does not exist
missingErr(f, p) ==
  IF \E a \in ancestors(p) : isFile(f, a) THEN "ENOTDIR" ELSE "ENOENT"

\* the path a string of segments leads to from cur, symbolic links followed
RECURSIVE walk(_, _, _, _)
walk(f, cur, segs, links) ==
  IF segs = <<>> THEN cur
  ELSE LET next == pathJoin(cur, Head(segs)) IN
       IF links > 0 /\ next \in DOMAIN f /\ f[next].kind = "symlink"
       THEN walk(f, <<Sep>>,
                 normalizeSegs(split(f[next].data, Sep), <<>>) \o Tail(segs),
                 links - 1)
       ELSE walk(f, next, Tail(segs), links)

\* the canonical path of a resolved path: what fs.realpath returns and where
\* fs.stat, fs.readdir and fs.readFile look
realpathOf(f, p) == walk(f, <<Sep>>, normalizeSegs(split(p, Sep), <<>>), MaxLinks)

Start(f) == [fs |-> f, log |-> {}, err |-> NoErr]
logged(st, kind, p) == [st EXCEPT !.log = @ \cup {<<kind, p>>}]
throw(st, e) == [st EXCEPT !.err = e]
caught(st) == [st EXCEPT !.err = NoErr]

\* the calls that change the filesystem
WriteKinds == {"writeFile", "copyFile", "mkdir", "rename", "rmdir", "rm", "utimes"}

\* fs.stat(p) / fs.access(p): throws when p cannot be reached
fsStat(st, p) ==
  LET s1 == logged(st, "stat", p)
      c  == realpathOf(s1.fs, p)
  IN IF exists(s1.fs, c) THEN s1 ELSE throw(s1, missingErr(s1.fs, c))

fsAccess(st, p) ==
  LET s1 == logged(st, "access", p)
      c  == realpathOf(s1.fs, p)
  IN IF exists(s1.fs, c) THEN s1 ELSE throw(s1, missingErr(s1.fs, c))

\* fs.readFile(p, 'utf-8'): the data is read off st.fs by the caller
fsReadFile(st, p) ==
  LET s1 == logged(st, "readFile", p)
      c  == realpathOf(s1.fs, p)
  IN IF ~exists(s1.fs, c) THEN throw(s1, missingErr(s1.fs, c))
     ELSE IF isDirectory(s1.fs, c) THEN throw(s1, "EISDIR")
     ELSE s1

\* fs.writeFile(p, data, 'utf-8')
fsWriteFile(st, p, data) ==
  LET s1 == logged(st, "writeFile", p) IN
  IF isDirectory(s1.fs, p) THEN throw(s1, "EISDIR")
  ELSE IF ~isDirectory(s1.fs, dirname(p)) THEN throw(s1, missingErr(s1.fs, p))
  ELSE [s1 EXCEPT !.fs = (p :> FileNode(data, IF exists(s1.fs, p) THEN s1.fs[p].pad ELSE 0)) @@ @]

\* fs.copyFile(src, dest): replaces an existing destination file; copying a
\* file onto itself does nothing
fsCopyFile(st, src, dest) ==
  LET s1 == logged(logged(st, "readFile", src), "copyFile", dest) IN
  IF ~exists(s1.fs, src) THEN throw(s1, missingErr(s1.fs, src))
  ELSE IF isDirectory(s1.fs, src) \/ isDirectory(s1.fs, dest) THEN throw(s1, "EISDIR")
  ELSE IF ~isDirectory(s1.fs, dirname(dest)) THEN throw(s1, missingErr(s1.fs, dest))
  ELSE IF src = dest THEN s1
  ELSE [s1 EXCEPT !.fs = (dest :> [s1.fs[src] EXCEPT !.mtime = Now]) @@ @]

\* a bug utimes could have: the file is stamped with the time of the call
fsUtimesNow(st, p, mtime) ==
  LET s1 == logged(st, "utimes", p) IN
  IF ~exists(s1.fs, p) THEN throw(s1, missingErr(s1.fs, p))
  ELSE [s1 EXCEPT !.fs[p].mtime = Now]

\* fs.utimes(p, atime, mtime)
fsUtimes(st, p, mtime) ==
  LET s1 == logged(st, "utimes", p) IN
  IF ~exists(s1.fs, p) THEN throw(s1, missingErr(s1.fs, p))
  ELSE [s1 EXCEPT !.fs[p].mtime = mtime]

\* fs.realpath(p): the canonical path is read off st.fs by the caller
fsRealpath(st, p) ==
  LET s1 == logged(st, "realpath", p)
      c  == realpathOf(s1.fs, p)
  IN IF exists(s1.fs, c) THEN s1 ELSE throw(s1, missingErr(s1.fs, c))

\* fs.mkdir(p, { recursive: true }): an existing directory is no error
fsMkdirRecursive(st, p) ==
  LET s1 == logged(st, "mkdir", p)
      missing == {q \in ancestors(p) \cup {p} : ~exists(s1.fs, q)}
  IN IF isFile(s1.fs, p) THEN throw(s1, "EEXIST")
     ELSE IF \E a \in ancestors(p) : isFile(s1.fs, a) THEN throw(s1, "ENOTDIR")
     ELSE [s1 EXCEPT !.fs = [q \in missing |-> DirNode] @@ @]

\* fs.readdir(p, { withFileTypes: true }): the entries are read off st.fs; the
\* log tells the canonical directory listed, and whether it was listed before
fsReaddir(st, p) ==
  LET s1 == logged(st, "readdir", p)
      c  == realpathOf(s1.fs, p)
  IN IF ~exists(s1.fs, c) THEN throw(s1, missingErr(s1.fs, c))
     ELSE IF ~isDirectory(s1.fs, c) THEN throw(s1, "ENOTDIR")
     ELSE IF ~s1.fs[c].readable THEN throw(s1, "EACCES")
     ELSE logged(s1, IF <<"listed", c>> \in s1.log THEN "listedAgain" ELSE "listed", c)

\* fs.rmdir(p): only an empty directory
fsRmdir(st, p) ==
  LET s1 == logged(st, "rmdir", p) IN
  IF ~exists(s1.fs, p) THEN throw(s1, missingErr(s1.fs, p))
  ELSE IF ~isDirectory(s1.fs, p) THEN throw(s1, "ENOTDIR")
  ELSE IF children(s1.fs, p) # {} THEN throw(s1, "ENOTEMPTY")
  ELSE [s1 EXCEPT !.fs = [q \in DOMAIN @ \ {p} |-> @[q]]]

\* fs.rm(p, { recursive: true, force }): the whole subtree
fsRm(st, p, force) ==
  LET s1 == logged(st, "rm", p) IN
  IF ~exists(s1.fs, p)
  THEN (IF force THEN s1 ELSE throw(s1, missingErr(s1.fs, p)))
  ELSE [s1 EXCEPT !.fs = [q \in DOMAIN @ \ subtree(@, p) |-> @[q]]]

\* fs.rename(from, to) as rename(2)
fsRename(st, from, to) ==
  LET s1 == logged(logged(st, "rename", from), "rename", to)
      f  == s1.fs
  IN IF ~exists(f, from) THEN throw(s1, missingErr(f, from))
     ELSE IF ~isDirectory(f, dirname(to)) THEN throw(s1, missingErr(f, to))
     ELSE IF from = to THEN s1
     ELSE IF isFile(f, from) /\ isDirectory(f, to) THEN throw(s1, "EISDIR")
     ELSE IF isDirectory(f, from) /\ isFile(f, to) THEN throw(s1, "ENOTDIR")
     ELSE IF isDirectory(f, from) /\ startsWith(to, pathJoin(from, <<>>))
          THEN throw(s1, "EINVAL")
     ELSE IF isDirectory(f, to) /\ children(f, to) # {} THEN throw(s1, "ENOTEMPTY")
     ELSE LET moved == subtree(f, from)
              kept  == DOMAIN f \ (moved \cup {to})
              dest(q) == to \o SubSeq(q, Len(from) + 1, Len(q))
          IN [s1 EXCEPT !.fs =
                [q \in kept \cup {dest(m) : m \in moved} |->
                   IF q \in kept THEN f[q]
                   ELSE f[CHOOSE m \in moved : dest(m) = q]]]

----------------------------------------------------------------------------
(* PatchEngine: EditFilePatchTool                                          *)

\* interface PatchEdit: every field optional but type
PatchEdit(type, line, after_line, start_line, end_line, old, new, content) ==
  [type |-> type, line |-> line, after_line |-> after_line,
   start_line |-> start_line, end_line |-> end_line,
   old |-> old, new |-> new, content |-> content]

Replace(line, old, new) == PatchEdit("replace", line, Undef, Undef, Undef, old, new, Undef)
Insert(after_line, content) ==
  PatchEdit("insert", Undef, after_line, Undef, Undef, Undef, Undef, content)
Delete(line) == PatchEdit("delete", line, Undef, Undef, Undef, Undef, Undef, Undef)
DeleteRange(start_line, end_line) ==
  PatchEdit("delete", Undef, Undef, start_line, end_line, Undef, Undef, Undef)

\* the UsageGuidance.recommendation of analyzeUsageEfficiency; sizes in bytes
KB == 1024

analyzeUsageEfficiency(size, lines, edits) ==
  LET editCount == Len(edits)
      editsNeedingSearch == Cardinality({i \in 1..Len(edits) :
        \/ edits[i].type = "replace" /\ TruthyNum(edits[i].line) /\ ~TruthyStr(edits[i].old)
        \/ edits[i].type = "insert" /\ edits[i].after_line = Undef
        \/ edits[i].type = "delete" /\ ~TruthyNum(edits[i].line)
                                    /\ ~TruthyNum(edits[i].start_line)})
  IN IF editCount = 1 /\ size < 10 * KB THEN "not_recommended"
     ELSE IF editCount <= 2 /\ size < 20 * KB THEN "acceptable"
     ELSE IF 2 * editsNeedingSearch > editCount THEN "not_recommended"
     ELSE IF size > 100 * KB /\ editCount >= 3 THEN "strongly_recommended"
     ELSE IF editCount >= 3 /\ size > 10 * KB THEN "recommended"
     ELSE IF size > 50 * KB THEN "recommended"
     ELSE "acceptable"

\* the Error validateEdits throws for one edit, or NoErr
editError(edit, totalLines) ==
  CASE edit.type = "replace" ->
         IF ~TruthyNum(edit.line) \/ ~TruthyStr(edit.new) THEN "missing required fields"
         ELSE IF edit.line[1] < 1 \/ edit.line[1] > totalLines THEN "out of range"
         ELSE NoErr
    [] edit.type = "insert" ->
         IF edit.after_line = Undef \/ ~TruthyStr(edit.content)
         THEN "missing required fields"
         ELSE IF edit.after_line[1] < 0 \/ edit.after_line[1] > totalLines
         THEN "out of range"
         ELSE NoErr
    [] edit.type = "delete" ->
         IF TruthyNum(edit.line)
         THEN (IF edit.line[1] < 1 \/ edit.line[1] > totalLines
               THEN "out of range" ELSE NoErr)
         ELSE IF TruthyNum(edit.start_line) /\ TruthyNum(edit.end_line)
         THEN (IF \/ edit.start_line[1] < 1
                  \/ edit.end_line[1] > totalLines
                  \/ edit.start_line[1] > edit.end_line[1]
               THEN "out of range" ELSE NoErr)
         ELSE "missing required fields"
    [] OTHER -> "unknown edit type"

\* validateEdits: throws at the first edit in error, else returns the edits
validateEdits(edits, totalLines) ==
  LET bad == {i \in 1..Len(edits) : editError(edits[i], totalLines) # NoErr} IN
  IF bad = {} THEN [err |-> NoErr, validated |-> edits]
  ELSE LET i == CHOOSE k \in bad : \A j \in bad : k <= j
       IN [err |-> editError(edits[i], totalLines), validated |-> <<>>]

\* the sort key of sortEdits: a.line || a.start_line || a.after_line || 0
sortKey(a) ==
  IF TruthyNum(a.line) THEN a.line[1]
  ELSE IF TruthyNum(a.start_line) THEN a.start_line[1]
  ELSE IF TruthyNum(a.after_line) THEN a.after_line[1]
  ELSE 0

\* a bug the comparator could have: ascending order
compareEditsAscending(a, b) == sortKey(a) - sortKey(b)

\* the comparator of sortEdits: negative when a goes first
compareEdits(a, b) == sortKey(b) - sortKey(a)

\* Array.prototype.sort is stable: e goes behind everything it does not precede
RECURSIVE insertStable(_, _)
insertStable(sorted, e) ==
  IF sorted = <<>> THEN <<e>>
  ELSE LET last == sorted[Len(sorted)] IN
       IF compareEdits(last, e) <= 0 THEN Append(sorted, e)
       ELSE Append(insertStable(SubSeq(sorted, 1, Len(sorted) - 1), e), last)

RECURSIVE sortEdits(_)
sortEdits(edits) ==
  IF edits = <<>> THEN <<>>
  ELSE insertStable(sortEdits(SubSeq(edits, 1, Len(edits) - 1)), edits[Len(edits)])

\* Array.prototype.splice(start, deleteCount, ...items), start 0-based
splice(arr, start, deleteCount, items) ==
  LET s == IF start > Len(arr) THEN Len(arr) ELSE start
      d == IF deleteCount > Len(arr) - s THEN Len(arr) - s ELSE deleteCount
  IN SubSeq(arr, 1, s) \o items \o SubSeq(arr, s + d + 1, Len(arr))

\* arr[index] = value, index 0-based; past the end the array grows
assignAt(arr, index, value) ==
  IF index < Len(arr) THEN [arr EXCEPT ![index + 1] = value]
  ELSE arr \o [k \in 1..(index - Len(arr)) |-> <<>>] \o <<value>>

\* one turn of the loop of applyEdits on acc = [lines, summary, err]
applyEdit(acc, edit, validateContent) ==
  CASE edit.type = "replace" ->
         LET lineIndex == edit.line[1] - 1
             defined   == lineIndex < Len(acc.lines)
             currentContent == IF defined THEN acc.lines[lineIndex + 1] ELSE <<>>
             checked   == validateContent /\ TruthyStr(edit.old)
         IN IF checked /\ ~defined THEN [acc EXCEPT !.err = "TypeError"]
            ELSE IF checked /\ ~includes(currentContent, edit.old[1])
            THEN [acc EXCEPT !.err = "Replace validation failed"]
            ELSE [acc EXCEPT
                    !.lines = assignAt(@, lineIndex,
                                IF TruthyStr(edit.old) /\ validateContent
                                THEN replaceFirst(currentContent, edit.old[1], edit.new[1])
                                ELSE edit.new[1]),
                    !.summary = Append(@, <<"Replaced", edit.line[1]>>)]
    [] edit.type = "insert" ->
         LET insertIndex == edit.after_line[1] IN
         [acc EXCEPT !.lines = splice(@, insertIndex + 1, 0, <<edit.content[1]>>),
                     !.summary = Append(@, <<"Inserted", edit.after_line[1]>>)]
    [] edit.type = "delete" ->
         IF TruthyNum(edit.line)
         THEN [acc EXCEPT !.lines = splice(@, edit.line[1] - 1, 1, <<>>),
                          !.summary = Append(@, <<"Deleted", edit.line[1]>>)]
         ELSE IF TruthyNum(edit.start_line) /\ TruthyNum(edit.end_line)
         THEN [acc EXCEPT
                 !.lines = splice(@, edit.start_line[1] - 1,
                                  edit.end_line[1] - edit.start_line[1] + 1, <<>>),
                 !.summary = Append(@, <<"Deleted", edit.start_line[1]>>)]
         ELSE acc
    [] OTHER -> acc

\* applyEdits: the edits in the order given, on a copy of lines
RECURSIVE applyLoop(_, _, _)
applyLoop(acc, edits, validateContent) ==
  IF edits = <<>> \/ acc.err # NoErr THEN acc
  ELSE applyLoop(applyEdit(acc, Head(edits), validateContent), Tail(edits),
                 validateContent)

applyEdits(lines, edits, validateContent) ==
  applyLoop([lines |-> lines, summary |-> <<>>, err |-> NoErr], edits, validateContent)

\* createResponse / createErrorResponse
Response(kind, summary) ==
  [isError |-> FALSE, kind |-> kind, error |-> NoErr, detail |-> NoErr,
   summary |-> summary]
ErrorResponse(error, detail) ==
  [isError |-> TRUE, kind |-> "error", error |-> error, detail |-> detail,
   summary |-> <<>>]

\* `${resolvedPath}.backup.${Date.now()}`
backupPathOf(resolvedPath) == resolvedPath \o <<".", "b", "a", "k">>

\* a bug applyAndWrite could have: the buffer is written although an edit threw
applyAndWriteUnbuffered(st, resolvedPath, lines, sortedEdits, validateContent) ==
  LET r  == applyEdits(lines, sortedEdits, validateContent)
      s2 == fsWriteFile(st, resolvedPath, join(r.lines, "\n"))
  IN IF r.err = "TypeError" THEN [st |-> s2, result |-> ErrorResponse("TypeError", r.err)]
     ELSE IF r.err # NoErr
     THEN [st |-> s2, result |-> ErrorResponse("ValidationError", r.err)]
     ELSE IF s2.err # NoErr THEN [st |-> s2, result |-> ErrorResponse("IOError", s2.err)]
     ELSE [st |-> s2, result |-> Response("success", r.summary)]

\* execute: applyEdits on the lines read, then the one writeFile of the result
applyAndWrite(st, resolvedPath, lines, sortedEdits, validateContent) ==
  LET r  == applyEdits(lines, sortedEdits, validateContent)
      s2 == fsWriteFile(st, resolvedPath, join(r.lines, "\n"))
  IN IF r.err = "TypeError" THEN [st |-> st, result |-> ErrorResponse("TypeError", r.err)]
     ELSE IF r.err # NoErr
     THEN [st |-> st, result |-> ErrorResponse("ValidationError", r.err)]
     ELSE IF s2.err # NoErr THEN [st |-> s2, result |-> ErrorResponse("IOError", s2.err)]
     ELSE [st |-> s2, result |-> Response("success", r.summary)]

\* execute from the backup step on: backup, validateEdits, sortEdits, apply, write
patchWrite(st, args, resolvedPath, lines) ==
  LET s1 == IF args.create_backup
            THEN fsCopyFile(st, resolvedPath, backupPathOf(resolvedPath))
            ELSE st
      v  == validateEdits(args.edits, Len(lines))
      sortedEdits == sortEdits(v.validated)
  IN IF s1.err # NoErr THEN [st |-> s1, result |-> ErrorResponse("IOError", s1.err)]
     ELSE IF v.err # NoErr
     THEN [st |-> s1, result |-> ErrorResponse("ValidationError", v.err)]
     ELSE applyAndWrite(s1, resolvedPath, lines, sortedEdits, args.validate_content)

\* EditFilePatchTool.execute
patchExecute(f, args) ==
  LET st == Start(f)
      resolvedPath == resolve(args.path)
      s1 == fsStat(st, resolvedPath)
      s2 == fsReadFile(s1, resolvedPath)
      lines == split(s2.fs[resolvedPath].data, "\n")
      size  == Len(s2.fs[resolvedPath].data) + s2.fs[resolvedPath].pad
      guidance == analyzeUsageEfficiency(size, lines, args.edits)
  IN IF ~isPathAllowed(resolvedPath)
     THEN [st |-> st, result |-> ErrorResponse("AccessDenied", NoErr)]
     ELSE IF s1.err # NoErr
     THEN [st |-> caught(s1), result |-> ErrorResponse("NotFound", s1.err)]
     ELSE IF s2.err # NoErr
     THEN [st |-> s2, result |-> ErrorResponse("IOError", s2.err)]
     ELSE IF args.check_efficiency
     THEN [st |-> s2, result |-> Response("guidance", <<>>)]
     ELSE IF ~args.force_execution /\ guidance = "not_recommended"
     THEN [st |-> s2, result |-> Response("efficiency_warning", <<>>)]
     ELSE IF guidance = "acceptable" /\ ~args.force_execution
     THEN [st |-> s2, result |-> Response("efficiency_note", <<>>)]
     ELSE patchWrite(s2, args, resolvedPath, lines)

----------------------------------------------------------------------------
(* Requests and the state between them                                     *)

Idle == [op |-> "idle"]
NoResult == Response("none", <<>>)

\* all sequences over S of length 0..n
SeqsUpTo(S, n) == UNION {[1..k -> S] : k \in 0..n}

----------------------------------------------------------------------------
(* SpecSandbox: isPathAllowed on every short path string                   *)

PathAlphabet == {"/", "a", "2", "."}
PathInputs == SeqsUpTo(PathAlphabet, MaxPathLen) \ {<<>>}

\* the argv lists the server is started with
RootConfigs ==
  { << <<"/", "a">> >>,
    << <<"/", "a", "/">>, <<"/", "2", "/", "a">> >> }

InitSandbox ==
  /\ allowedDirectories \in RootConfigs
  /\ fs = EmptyFs
  /\ call = Idle
  /\ result = NoResult
  /\ pre = EmptyFs
  /\ log = {}

CheckPath ==
  /\ call.op = "idle"
  /\ \E p \in PathInputs :
       /\ call' = [op |-> "isPathAllowed", path |-> p]
       /\ result' = [kind |-> "boolean", allowed |-> isPathAllowed(p)]
  /\ UNCHANGED <<allowedDirectories, fs, pre, log>>

NextSandbox == CheckPath

SpecSandbox == InitSandbox /\ [][NextSandbox]_vars

\* C1: isPathAllowed(p) is true iff the resolved path of p is a configured root or
\* has one as an ancestor directory (so "/a2" is rejected under the root "/a").
C1_AllowedIffRootIsAncestor ==
  call.op = "isPathAllowed" =>
    (result.allowed <=> RootIsAncestorOrSelf(allowedDirectories, call.path))

----------------------------------------------------------------------------
(* SpecPatch: one edit_file_patch request on an existing, allowed file     *)

\* the lines of the file being patched; line i is told apart by its first letter
FileLines == << <<"a", "x">>, <<"b", "x">>, <<"c", "x">> >>
NumLines == Len(FileLines)

\* bytes of the file beyond the modelled lines (fs.stat's size is data + pad)
PadSizes == {0, 60 * KB}

PatchRoot == <<"/", "r">>
PatchFile == <<"/", "r", "/", "f">>

OldPresent == <<"x">>   \* occurs in every line
OldAbsent  == <<"z">>   \* occurs in none
NewText    == <<"N">>
InsText    == <<"I">>

\* the edits a request is built from
ReplaceEdits ==
  {Replace(Some(l), o, Some(NewText)) :
      l \in 1..NumLines, o \in {Undef, Some(OldPresent), Some(OldAbsent)}}
  \cup {Replace(Some(0), Undef, Some(NewText)),
        Replace(Some(NumLines + 1), Undef, Some(NewText)),
        Replace(Undef, Undef, Some(NewText)),
        Replace(Some(1), Undef, Some(<<>>)),
        Replace(Some(1), Undef, Undef)}
InsertEdits ==
  {Insert(Some(k), Some(InsText)) : k \in 0..(NumLines + 1)}
  \cup {Insert(Undef, Some(InsText)),
        Insert(Some(1), Some(<<>>)),
        Insert(Some(1), Undef)}
DeleteEdits ==
  {Delete(Some(l)) : l \in 1..(NumLines + 1)}
  \cup UNION {{DeleteRange(Some(a), Some(b)) : b \in (a + 1)..NumLines} :
               a \in 1..NumLines}
  \cup {DeleteRange(Some(2), Some(1)),
        DeleteRange(Some(1), Some(NumLines + 1)),
        Delete(Undef)}
EditUniverse == ReplaceEdits \cup InsertEdits \cup DeleteEdits

PatchFs(pad) ==
  (PatchFile :> FileNode(join(FileLines, "\n"), pad))
  @@ (PatchRoot :> DirNode) @@ EmptyFs

InitPatch ==
  /\ allowedDirectories = <<PatchRoot>>
  /\ \E pad \in PadSizes : fs = PatchFs(pad)
  /\ call = Idle
  /\ result = NoResult
  /\ pre = fs
  /\ log = {}

\* the server answers one edit_file_patch request
EditFilePatch(paths, batches) ==
  /\ call.op = "idle"
  /\ \E path \in paths, edits \in batches,
        validate_content \in BOOLEAN, create_backup \in BOOLEAN,
        force_execution \in BOOLEAN, check_efficiency \in BOOLEAN :
       LET args == [op |-> "edit_file_patch", path |-> path, edits |-> edits,
                    validate_content |-> validate_content,
                    create_backup |-> create_backup,
                    force_execution |-> force_execution,
                    check_efficiency |-> check_efficiency]
           r == patchExecute(fs, args)
       IN /\ call' = args
          /\ fs' = r.st.fs
          /\ log' = r.st.log
          /\ result' = r.result
          /\ pre' = fs
  /\ UNCHANGED allowedDirectories

PatchBatches == SeqsUpTo(EditUniverse, MaxEdits)

NextPatch == EditFilePatch({PatchFile}, PatchBatches)

SpecPatch == InitPatch /\ [][NextPatch]_vars

----------------------------------------------------------------------------
(* Properties of the patch tool                                            *)

IsPatchCall == call.op = "edit_file_patch"

\* the request got past the efficiency gate of execute
PastGate == IsPatchCall /\ ~call.check_efficiency /\ call.force_execution

\* the PatchEdit invariant of the specification, against the original line count
SpecValid(edit, totalLines) ==
  CASE edit.type = "replace" ->
         /\ edit.line # Undef /\ edit.line[1] \in 1..totalLines
         /\ edit.new # Undef
    [] edit.type = "insert" ->
         /\ edit.after_line # Undef /\ edit.after_line[1] \in 0..totalLines
         /\ edit.content # Undef
    [] edit.type = "delete" ->
         \/ edit.line # Undef /\ edit.line[1] \in 1..totalLines
         \/ /\ edit.start_line # Undef /\ edit.end_line # Undef
            /\ 1 <= edit.start_line[1]
            /\ edit.start_line[1] <= edit.end_line[1]
            /\ edit.end_line[1] <= totalLines
    [] OTHER -> FALSE

\* a Replace whose `old` text is not in the line it addresses, checked on request
OldMissing(edit, lines, validateContent) ==
  /\ validateContent
  /\ edit.type = "replace"
  /\ SpecValid(edit, Len(lines))
  /\ TruthyStr(edit.old)
  /\ ~includes(lines[edit.line[1]], edit.old[1])

BatchFailsValidation ==
  \E i \in 1..Len(call.edits) :
    \/ ~SpecValid(call.edits[i], NumLines)
    \/ OldMissing(call.edits[i], FileLines, call.validate_content)

ValidationErrors == {"ValidationError", "TypeError"}

\* C3: when an edit of the batch fails validation (range, missing field, or `old`
\* absent under validate_content), the target file is unchanged after the call,
\* wherever the failing edit stands in the batch.
C3_FailedBatchLeavesFileUnchanged ==
  IsPatchCall /\ (BatchFailsValidation \/ result.error \in ValidationErrors)
    => fs[PatchFile] = pre[PatchFile]

\* C3's case: the batch passed validateEdits, an edit was applied to the line
\* buffer, and a later Replace then failed its content check.
C3_Witness ==
  /\ PastGate
  /\ result.error = "ValidationError"
  /\ result.detail = "Replace validation failed"
  /\ Len(call.edits) = MaxEdits
  /\ LET first == sortEdits(call.edits)[1]
     IN ~OldMissing(first, FileLines, call.validate_content)

\* the effective line number of an edit as the specification names it
EffLine(edit) ==
  CASE edit.type = "replace" -> edit.line[1]
    [] edit.type = "insert" -> edit.after_line[1]
    [] edit.type = "delete" ->
         IF edit.line # Undef THEN edit.line[1] ELSE edit.start_line[1]

\* the entry applyEdits adds to changesSummary for an edit
SummaryOf(edit) ==
  <<CASE edit.type = "replace" -> "Replaced"
      [] edit.type = "insert" -> "Inserted"
      [] edit.type = "delete" -> "Deleted",
    EffLine(edit)>>

\* the order the specification asks for: descending effective line number, edits
\* of equal number in request order
IsSpecOrder(edits, perm) ==
  /\ {perm[i] : i \in 1..Len(edits)} = 1..Len(edits)
  /\ \A i, j \in 1..Len(edits) :
       i < j => \/ EffLine(edits[perm[i]]) > EffLine(edits[perm[j]])
                \/ /\ EffLine(edits[perm[i]]) = EffLine(edits[perm[j]])
                   /\ perm[i] < perm[j]

\* C5: the edits are applied in non-increasing order of effective line number,
\* edits of equal number in request order, whatever the order of the request.
C5_AppliedInDescendingStableOrder ==
  IsPatchCall /\ result.kind = "success" =>
    \E perm \in [1..Len(call.edits) -> 1..Len(call.edits)] :
      /\ IsSpecOrder(call.edits, perm)
      /\ result.summary = [i \in 1..Len(call.edits) |-> SummaryOf(call.edits[perm[i]])]

\* C5's case: the request lists a lower line before a higher one, and another
\* request lists two edits of one line.
C5_Witness ==
  /\ IsPatchCall /\ result.kind = "success"
  /\ Len(call.edits) = 2
  /\ EffLine(call.edits[1]) < EffLine(call.edits[2])
  /\ result.summary[1] = SummaryOf(call.edits[2])

\* the line numbers an edit names
NamedLines(edit) ==
  CASE edit.type = "replace" -> {edit.line[1]}
    [] edit.type = "insert" -> {edit.after_line[1]} \ {0}
    [] edit.type = "delete" ->
         IF TruthyNum(edit.line) THEN {edit.line[1]}
         ELSE edit.start_line[1]..edit.end_line[1]

\* origin[k] is the original line number now at position k (0: not an original line)
trackEdit(origin, edit) ==
  CASE edit.type = "replace" ->
         IF edit.line[1] <= Len(origin) THEN origin ELSE Append(origin, 0)
    [] edit.type = "insert" -> splice(origin, edit.after_line[1] + 1, 0, <<0>>)
    [] edit.type = "delete" ->
         IF TruthyNum(edit.line) THEN splice(origin, edit.line[1] - 1, 1, <<>>)
         ELSE splice(origin, edit.start_line[1] - 1,
                     edit.end_line[1] - edit.start_line[1] + 1, <<>>)

RefsIntact(origin, edit) ==
  \A l \in NamedLines(edit) : l <= Len(origin) /\ origin[l] = l

RECURSIVE PlanKeepsRefs(_, _)
PlanKeepsRefs(origin, edits) ==
  \/ edits = <<>>
  \/ /\ RefsIntact(origin, Head(edits))
     /\ PlanKeepsRefs(trackEdit(origin, Head(edits)), Tail(edits))

\* C4: for every batch that passes validation, each edit, when its turn comes in the
\* sorted order, still names the original lines it named in the file as read.
C4_SortedOrderKeepsLineRefs ==
  PastGate /\ validateEdits(call.edits, NumLines).err = NoErr =>
    PlanKeepsRefs([k \in 1..NumLines |-> k], sortEdits(call.edits))

\* C6: validateEdits accepts an edit iff its required fields are supplied and its
\* line references are in range; an empty `new` or `content` string is accepted.
C6_ValidationAcceptsExactlyValidEdits ==
  PastGate /\ ~call.create_backup =>
    ( (result.isError /\ result.error = "ValidationError"
         /\ result.detail # "Replace validation failed")
      <=> \E i \in 1..Len(call.edits) : ~SpecValid(call.edits[i], NumLines) )

\* C7: with check_efficiency false, a request on an existing allowed file whose
\* edits all pass validation ends in a success report with the file written,
\* whatever the file size, the number of edits and force_execution.
C7_EfficiencyIsAdvisory ==
  IsPatchCall /\ ~call.check_efficiency /\ call.edits # <<>>
    /\ ~BatchFailsValidation
    /\ validateEdits(call.edits, NumLines).err = NoErr
  => /\ result.kind = "success"
     /\ <<"writeFile", PatchFile>> \in log

\* C8: a call that ends with a validation error has issued no filesystem write:
\* neither the target nor a backup file was created or modified.
C8_ValidationErrorPrecedesAnyWrite ==
  IsPatchCall /\ result.error = "ValidationError" =>
    /\ \A e \in log : e[1] \notin WriteKinds
    /\ fs = pre


----------------------------------------------------------------------------
(* Error messages: a fixed phrase (one element) followed by the characters *)
(* of the path interpolated into it, so that String.includes is computed   *)

Message(phrase, arg) == <<phrase>> \o arg

\* the errno that starts the message of a rejected fs call
CodeChars(code) ==
  CASE code = "ENOENT"    -> <<"E", "N", "O", "E", "N", "T">>
    [] code = "ENOTDIR"   -> <<"E", "N", "O", "T", "D", "I", "R">>
    [] code = "EISDIR"    -> <<"E", "I", "S", "D", "I", "R">>
    [] code = "EEXIST"    -> <<"E", "E", "X", "I", "S", "T">>
    [] code = "ENOTEMPTY" -> <<"E", "N", "O", "T", "E", "M", "P", "T", "Y">>
    [] code = "EINVAL"    -> <<"E", "I", "N", "V", "A", "L">>
    [] code = "EACCES"    -> <<"E", "A", "C", "C", "E", "S">>
    [] OTHER              -> <<code>>

\* "<CODE>: <text>, <syscall> '<path>'"
fsMessage(code, p) == CodeChars(code) \o <<": ">> \o p

\* the exception now propagating gets the message of the fs call on p
msgd(st, p) == IF st.err = NoErr THEN st ELSE [st EXCEPT !.msg = fsMessage(st.err, p)]

\* throw new Error(`${phrase}${arg}`)
raise(st, e, message) == [st EXCEPT !.err = e, !.msg = message]

ConflictMessage(destinationPath) ==
  <<"Destination directory already exists",
    " (use merge_existing=true to merge): ">> \o destinationPath

\* String.prototype.toLowerCase on the letters names are written in
toLowerChar(c) ==
  CASE c = "A" -> "a" [] c = "B" -> "b" [] c = "E" -> "e" [] c = "K" -> "k"
    [] c = "N" -> "n" [] c = "O" -> "o" [] c = "S" -> "s" [] c = "T" -> "t"
    [] c = "X" -> "x" [] c = "Y" -> "y" [] OTHER -> c

toLowerCase(s) == [i \in 1..Len(s) |-> toLowerChar(s[i])]

\* String.prototype.localeCompare: ".", "/", digits, then the letters; where
\* two strings differ only in case, the lowercase letter comes first
Collation ==
  <<".", "/", "2", "a", "b", "c", "d", "e", "f", "g", "h", "i", "j", "k", "l",
    "m", "n", "o", "p", "q", "r", "s", "t", "u", "v", "w", "x", "y", "z">>

collationRank(c) ==
  LET lc == toLowerChar(c) IN
  IF \E i \in 1..Len(Collation) : Collation[i] = lc
  THEN CHOOSE i \in 1..Len(Collation) : Collation[i] = lc
  ELSE 0

RECURSIVE comparePrimary(_, _)
comparePrimary(a, b) ==
  IF a = <<>> /\ b = <<>> THEN 0
  ELSE IF a = <<>> THEN -1
  ELSE IF b = <<>> THEN 1
  ELSE IF collationRank(Head(a)) # collationRank(Head(b))
  THEN collationRank(Head(a)) - collationRank(Head(b))
  ELSE comparePrimary(Tail(a), Tail(b))

RECURSIVE compareCase(_, _)
compareCase(a, b) ==
  IF a = <<>> \/ b = <<>> THEN 0
  ELSE IF Head(a) = Head(b) THEN compareCase(Tail(a), Tail(b))
  ELSE IF Head(a) = toLowerChar(Head(a)) THEN -1
  ELSE 1

localeCompare(a, b) ==
  IF comparePrimary(a, b) # 0 THEN comparePrimary(a, b) ELSE compareCase(a, b)

\* a set of names as a list in localeCompare order
RECURSIVE sortNames(_)
sortNames(S) ==
  IF S = {} THEN <<>>
  ELSE LET m == CHOOSE x \in S : \A y \in S : localeCompare(x, y) <= 0
       IN <<m>> \o sortNames(S \ {m})

\* entries of fs.readdir(p, { withFileTypes: true }); the order of a directory
\* listing is the filesystem's: ascending or descending by name
entriesOf(f, p, order) ==
  LET c     == realpathOf(f, p)
      asc   == sortNames({basename(q) : q \in children(f, c)})
      names == IF order = "descending"
               THEN [i \in 1..Len(asc) |-> asc[Len(asc) + 1 - i]]
               ELSE asc
  IN [i \in 1..Len(names) |->
        [name |-> names[i], kind |-> f[pathJoin(c, names[i])].kind]]

----------------------------------------------------------------------------
(* MergeMoveEngine: MoveDirectoryTool, the revision that reports statistics *)

NoStats == [filesMoved |-> 0, directoriesMoved |-> 0, filesSkipped |-> 0]

MoveStart(f) == [fs |-> f, log |-> {}, err |-> NoErr, msg |-> <<>>, stats |-> NoStats]

MoveResponse(operation, stats) ==
  [isError |-> FALSE, kind |-> "success", error |-> NoErr, detail |-> NoErr,
   summary |-> <<>>, message |-> <<>>, operation |-> operation, stats |-> stats]

MoveErrorResponse(st) ==
  [isError |-> TRUE, kind |-> "error", error |-> st.err, detail |-> NoErr,
   summary |-> <<>>, message |-> st.msg, operation |-> "none", stats |-> st.stats]

\* `await`: the call is made once and the handler goes on with its outcome
Await(s, F(_)) == CHOOSE r \in {F(v) : v \in {s}} : TRUE

\* a bug the file branch could have: an existing destination file is replaced
\* whatever overwrite_files says
mergeFileAlwaysOverwrite(st, sourcePath, destPath, overwriteFiles) ==
  Await(fsAccess(st, destPath), LAMBDA a :
    Await(fsMkdirRecursive(caught(a), dirname(destPath)), LAMBDA s2 :
      IF s2.err # NoErr THEN s2
      ELSE Await(fsRename(s2, sourcePath, destPath), LAMBDA s3 :
             IF s3.err # NoErr THEN s3
             ELSE [s3 EXCEPT !.stats.filesMoved = @ + 1])))

\* mergeDirectoryRecursive, the entry.isFile() branch
mergeFile(st, sourcePath, destPath, overwriteFiles) ==
  Await(fsAccess(st, destPath), LAMBDA a :
    IF a.err = NoErr /\ ~overwriteFiles
    THEN [a EXCEPT !.stats.filesSkipped = @ + 1]
    ELSE Await(fsMkdirRecursive(caught(a), dirname(destPath)), LAMBDA s2 :
           IF s2.err # NoErr THEN s2
           ELSE Await(fsRename(s2, sourcePath, destPath), LAMBDA s3 :
                  IF s3.err # NoErr THEN s3
                  ELSE [s3 EXCEPT !.stats.filesMoved = @ + 1])))

RECURSIVE mergeDirectoryRecursive(_, _, _, _, _)
RECURSIVE mergeDirectoryLoop(_, _, _, _, _, _)

\* mergeDirectoryRecursive, the body of the loop for one entry
mergeDirectoryEntry(st, entry, sourceDir, destDir, overwriteFiles, order) ==
  LET sourcePath == pathJoin(sourceDir, entry.name)
      destPath   == pathJoin(destDir, entry.name)
  IN IF ~isPathAllowed(sourcePath) \/ ~isPathAllowed(destPath)
     THEN logged(st, "skipDenied", sourcePath)
     ELSE IF entry.kind = "dir"
     THEN Await(fsMkdirRecursive(st, destPath), LAMBDA m :
            Await(mergeDirectoryRecursive(
                    IF m.err = NoErr
                    THEN [m EXCEPT !.stats.directoriesMoved = @ + 1]
                    ELSE caught(m),
                    sourcePath, destPath, overwriteFiles, order), LAMBDA s2 :
              IF s2.err # NoErr THEN s2 ELSE caught(fsRmdir(s2, sourcePath))))
     ELSE IF entry.kind = "file"
     THEN mergeFile(st, sourcePath, destPath, overwriteFiles)
     ELSE st

mergeDirectoryLoop(st, entries, sourceDir, destDir, overwriteFiles, order) ==
  IF entries = <<>> \/ st.err # NoErr THEN st
  ELSE Await(mergeDirectoryEntry(st, Head(entries), sourceDir, destDir,
                                 overwriteFiles, order), LAMBDA s :
         mergeDirectoryLoop(s, Tail(entries), sourceDir, destDir,
                            overwriteFiles, order))

mergeDirectoryRecursive(st, sourceDir, destDir, overwriteFiles, order) ==
  Await(fsReaddir(st, sourceDir), LAMBDA r :
    IF r.err # NoErr THEN r
    ELSE Await(entriesOf(r.fs, sourceDir, order), LAMBDA entries :
           mergeDirectoryLoop(r, entries, sourceDir, destDir,
                              overwriteFiles, order)))

\* mergeDirectories: fresh counters, then the recursive merge
mergeDirectoriesP3(st, sourceDir, destDir, overwriteFiles, order) ==
  mergeDirectoryRecursive([st EXCEPT !.stats = NoStats], sourceDir, destDir,
                          overwriteFiles, order)

\* execute, after the checks: merge and remove the source, or rename
moveP3(st, resolvedSource, resolvedDestination, destinationExists, args) ==
  IF destinationExists /\ args.merge_existing
  THEN Await(mergeDirectoriesP3(st, resolvedSource, resolvedDestination,
                                args.overwrite_files, args.order), LAMBDA m :
         IF m.err # NoErr
         THEN [st |-> m, result |-> MoveErrorResponse(msgd(m, resolvedSource))]
         ELSE Await(fsRm(m, resolvedSource, TRUE), LAMBDA r :
                [st |-> r, result |-> MoveResponse("merge", r.stats)]))
  ELSE Await(fsMkdirRecursive(st, dirname(resolvedDestination)), LAMBDA a :
         IF a.err # NoErr
         THEN [st |-> a, result |-> MoveErrorResponse(msgd(a, resolvedDestination))]
         ELSE Await(fsRename(a, resolvedSource, resolvedDestination), LAMBDA b :
                IF b.err # NoErr
                THEN [st |-> b,
                      result |-> MoveErrorResponse(msgd(b, resolvedDestination))]
                ELSE [st |-> b,
                      result |-> MoveResponse("atomic_move",
                                   [filesMoved |-> "all", directoriesMoved |-> "all",
                                    filesSkipped |-> 0])]))

\* execute, the try/catch around the stat of the destination: only the Conflict
\* error leaves it
moveDestinationCheck(st, resolvedDestination, args) ==
  Await(fsStat(st, resolvedDestination), LAMBDA s2 :
    Await(IF s2.err # NoErr THEN msgd(s2, resolvedDestination)
          ELSE IF ~isDirectory(s2.fs, resolvedDestination)
          THEN raise(s2, "NotADirectory",
                     Message("Destination exists and is not a directory: ",
                             args.destination))
          ELSE IF ~args.merge_existing
          THEN raise(s2, "Conflict", ConflictMessage(args.destination))
          ELSE s2, LAMBDA thrown :
      [destinationExists |-> s2.err = NoErr,
       st |-> IF thrown.err # NoErr
                 /\ includes(thrown.msg, <<"Destination directory already exists">>)
              THEN thrown
              ELSE caught(thrown)]))

\* MoveDirectoryTool.execute
moveExecuteP3(f, args) ==
  LET st == MoveStart(f)
      resolvedSource      == resolve(args.source)
      resolvedDestination == resolve(args.destination)
  IN IF ~isPathAllowed(resolvedSource)
     THEN LET e == raise(st, "AccessDenied",
                         Message("Access denied to source: ", args.source))
          IN [st |-> e, result |-> MoveErrorResponse(e)]
     ELSE IF ~isPathAllowed(resolvedDestination)
     THEN LET e == raise(st, "AccessDenied",
                         Message("Access denied to destination: ", args.destination))
          IN [st |-> e, result |-> MoveErrorResponse(e)]
     ELSE Await(fsStat(st, resolvedSource), LAMBDA s1 :
       IF s1.err # NoErr \/ ~isDirectory(s1.fs, resolvedSource)
       THEN LET e == raise(s1, "NotFound",
                           Message("Source directory does not exist: ", args.source))
            IN [st |-> e, result |-> MoveErrorResponse(e)]
       ELSE IF startsWith(resolvedDestination, resolvedSource \o <<Sep>>)
               \/ resolvedDestination = resolvedSource
       THEN LET e == raise(s1, "IntoItself",
                           Message("Cannot move directory into itself: ",
                                   args.destination))
            IN [st |-> e, result |-> MoveErrorResponse(e)]
       ELSE Await(moveDestinationCheck(s1, resolvedDestination, args), LAMBDA c :
              IF c.st.err # NoErr
              THEN [st |-> c.st, result |-> MoveErrorResponse(c.st)]
              ELSE moveP3(c.st, resolvedSource, resolvedDestination,
                          c.destinationExists, args)))

----------------------------------------------------------------------------
(* MergeMoveEngine: MoveDirectoryTool of move-directory.ts                 *)

RECURSIVE mergeDirectories(_, _, _, _, _)
RECURSIVE mergeDirectoriesLoop(_, _, _, _, _, _)

\* mergeDirectories, the body of the loop for one entry
mergeDirectoriesEntry(st, entry, source, destination, overwriteFiles, order) ==
  LET srcPath  == pathJoin(source, entry.name)
      destPath == pathJoin(destination, entry.name)
  IN IF entry.kind = "dir"
     THEN Await(fsMkdirRecursive(st, destPath), LAMBDA m :
            IF m.err # NoErr
            THEN mergeDirectories(caught(m), srcPath, destPath, overwriteFiles, order)
            ELSE Await(mergeDirectories(m, srcPath, destPath, overwriteFiles, order),
                       LAMBDA r :
                   IF r.err = NoErr THEN r
                   ELSE mergeDirectories(caught(r), srcPath, destPath,
                                         overwriteFiles, order)))
     ELSE IF entry.kind = "file"
     THEN Await(IF overwriteFiles THEN st ELSE fsAccess(st, destPath), LAMBDA a :
            IF ~overwriteFiles /\ a.err = NoErr THEN a
            ELSE msgd(fsCopyFile(caught(a), srcPath, destPath),
                      srcPath \o <<" -> ">> \o destPath))
     ELSE st

mergeDirectoriesLoop(st, entries, source, destination, overwriteFiles, order) ==
  IF entries = <<>> \/ st.err # NoErr THEN st
  ELSE Await(mergeDirectoriesEntry(st, Head(entries), source, destination,
                                   overwriteFiles, order), LAMBDA s :
         mergeDirectoriesLoop(s, Tail(entries), source, destination,
                              overwriteFiles, order))

mergeDirectories(st, source, destination, overwriteFiles, order) ==
  Await(msgd(fsReaddir(st, source), source), LAMBDA r :
    IF r.err # NoErr THEN r
    ELSE Await(entriesOf(r.fs, source, order), LAMBDA entries :
           mergeDirectoriesLoop(r, entries, source, destination,
                                overwriteFiles, order)))

\* execute, the try block around the destination: stat, then merge and remove
moveTry(st, resolvedSource, resolvedDestination, args) ==
  Await(msgd(fsStat(st, resolvedDestination), resolvedDestination), LAMBDA s2 :
    IF s2.err # NoErr THEN s2
    ELSE IF ~isDirectory(s2.fs, resolvedDestination)
    THEN raise(s2, "NotADirectory",
               Message("Destination exists but is not a directory: ",
                       args.destination))
    ELSE IF ~args.merge_existing
    THEN raise(s2, "Conflict", ConflictMessage(args.destination))
    ELSE Await(mergeDirectories(s2, resolvedSource, resolvedDestination,
                                args.overwrite_files, args.order), LAMBDA m :
           IF m.err # NoErr THEN m
           ELSE msgd(fsRm(m, resolvedSource, FALSE), resolvedSource)))

\* execute, the catch of that try: a message holding 'ENOENT' means "no
\* destination", and the source is renamed onto it
moveCatch(t, resolvedSource, resolvedDestination) ==
  IF t.err = NoErr
  THEN [st |-> t, result |-> MoveResponse("merged", t.stats)]
  ELSE IF ~includes(t.msg, CodeChars("ENOENT"))
  THEN [st |-> t, result |-> MoveErrorResponse(t)]
  ELSE Await(msgd(fsRename(caught(t), resolvedSource, resolvedDestination),
                  resolvedSource \o <<" -> ">> \o resolvedDestination), LAMBDA b :
         IF b.err # NoErr THEN [st |-> b, result |-> MoveErrorResponse(b)]
         ELSE [st |-> b, result |-> MoveResponse("moved", b.stats)])

\* MoveDirectoryTool.execute
moveExecute(f, args) ==
  LET st == MoveStart(f)
      resolvedSource      == resolve(args.source)
      resolvedDestination == resolve(args.destination)
  IN IF ~isPathAllowed(resolvedSource)
     THEN LET e == raise(st, "AccessDenied",
                         Message("Access denied to source: ", args.source))
          IN [st |-> e, result |-> MoveErrorResponse(e)]
     ELSE IF ~isPathAllowed(resolvedDestination)
     THEN LET e == raise(st, "AccessDenied",
                         Message("Access denied to destination: ", args.destination))
          IN [st |-> e, result |-> MoveErrorResponse(e)]
     ELSE Await(fsStat(st, resolvedSource), LAMBDA s1 :
       IF s1.err # NoErr \/ ~isDirectory(s1.fs, resolvedSource)
       THEN LET e == raise(s1, "NotFound",
                           Message("Source directory does not exist: ", args.source))
            IN [st |-> e, result |-> MoveErrorResponse(e)]
       ELSE Await(moveTry(s1, resolvedSource, resolvedDestination, args), LAMBDA t :
              moveCatch(t, resolvedSource, resolvedDestination)))

----------------------------------------------------------------------------
(* SpecMove: one move_directory request, to either revision of the tool    *)

MoveRoot == <<"/", "r">>
MoveSource == <<"/", "r", "/", "s">>

\* destinations: "/r/d", and "/r/ENOENT", whose name is the errno the catch
\* of move-directory.ts looks for
MoveDestinations ==
  { <<"/", "r", "/", "d">>,
    <<"/", "r", "/", "E", "N", "O", "E", "N", "T">> }

FromSource == <<"S">>
FromDest == <<"D">>

NameX == <<"x">>
NameY == <<"y">>
NameK == <<"k">>

\* the orders readdir may list a directory in
EntryOrders == {"ascending", "descending"}

\* a source directory: files x and y, subdirectory k (absent, empty, holding x)
SourceTrees ==
  { (MoveSource :> DirNode)
    @@ (IF x THEN (pathJoin(MoveSource, NameX) :> FileNode(FromSource, 0)) ELSE <<>>)
    @@ (IF y THEN (pathJoin(MoveSource, NameY) :> FileNode(FromSource, 0)) ELSE <<>>)
    @@ (CASE k = "absent" -> <<>>
          [] k = "empty"  -> (pathJoin(MoveSource, NameK) :> DirNode)
          [] k = "full"   -> (pathJoin(MoveSource, NameK) :> DirNode)
                             @@ (pathJoin(pathJoin(MoveSource, NameK), NameX)
                                   :> FileNode(FromSource, 0)))
    : x \in BOOLEAN, y \in BOOLEAN, k \in {"absent", "empty", "full"} }

\* what is at the destination d: nothing, a file, or a directory whose x is
\* absent, a file or a directory and whose k is absent, empty, holding x, or a file
DestTrees(d) ==
  { <<>>, (d :> FileNode(FromDest, 0)) }
  \cup
  { (d :> DirNode)
    @@ (CASE x = "absent" -> <<>>
          [] x = "file"   -> (pathJoin(d, NameX) :> FileNode(FromDest, 0))
          [] x = "dir"    -> (pathJoin(d, NameX) :> DirNode))
    @@ (CASE k = "absent" -> <<>>
          [] k = "empty"  -> (pathJoin(d, NameK) :> DirNode)
          [] k = "full"   -> (pathJoin(d, NameK) :> DirNode)
                             @@ (pathJoin(pathJoin(d, NameK), NameX)
                                   :> FileNode(FromDest, 0))
          [] k = "file"   -> (pathJoin(d, NameK) :> FileNode(FromDest, 0)))
    : x \in {"absent", "file", "dir"}, k \in {"absent", "empty", "full", "file"} }

InitMove ==
  /\ allowedDirectories = <<MoveRoot>>
  /\ \E s \in SourceTrees, d \in MoveDestinations :
       \E t \in DestTrees(d) : fs = s @@ t @@ (MoveRoot :> DirNode) @@ EmptyFs
  /\ call = Idle
  /\ result = NoResult
  /\ pre = fs
  /\ log = {}

MoveArgs(op, sources, destinations) ==
  { [op |-> op, source |-> s, destination |-> d, merge_existing |-> m,
     overwrite_files |-> o, order |-> ord]
    : s \in sources, d \in destinations, m \in BOOLEAN, o \in BOOLEAN,
      ord \in EntryOrders }

\* the server answers one move_directory request (move-directory.ts)
MoveDirectory(sources, destinations) ==
  /\ call.op = "idle"
  /\ \E args \in MoveArgs("move_directory", sources, destinations) :
       LET r == moveExecute(fs, args)
       IN /\ call' = args
          /\ fs' = r.st.fs
          /\ log' = r.st.log
          /\ result' = r.result
          /\ pre' = fs
  /\ UNCHANGED allowedDirectories

\* the server answers one move_directory request (the revision with statistics)
MoveDirectoryP3(sources, destinations) ==
  /\ call.op = "idle"
  /\ \E args \in MoveArgs("move_directory_stats", sources, destinations) :
       LET r == moveExecuteP3(fs, args)
       IN /\ call' = args
          /\ fs' = r.st.fs
          /\ log' = r.st.log
          /\ result' = r.result
          /\ pre' = fs
  /\ UNCHANGED allowedDirectories

NextMove ==
  \/ MoveDirectory({MoveSource}, MoveDestinations)
  \/ MoveDirectoryP3({MoveSource}, MoveDestinations)

SpecMove == InitMove /\ [][NextMove]_vars

----------------------------------------------------------------------------
(* Claims about move_directory                                             *)

IsMoveCall == call.op \in {"move_directory", "move_directory_stats"}

MoveSrc == resolve(call.source)
MoveDst == resolve(call.destination)

\* C9: move_directory onto an existing destination directory with
\* merge_existing = false answers with the Conflict error and changes nothing:
\* source tree and destination tree are as before the call.
C9_NoMergeOntoExistingDirIsConflict ==
  IsMoveCall /\ ~call.merge_existing /\ isDirectory(pre, MoveDst)
    => result.isError /\ result.error = "Conflict" /\ fs = pre

\* the regular files of the source tree before the call, and where each belongs
SourceFilesBefore == {p \in subtree(pre, MoveSrc) : isFile(pre, p)}
DestFilesBefore   == {p \in subtree(pre, MoveDst) : isFile(pre, p)}
Counterpart(p) == MoveDst \o SubSeq(p, Len(MoveSrc) + 1, Len(p))
HadCounterpart(p) == exists(pre, Counterpart(p))

IsSuccessfulKeepingMerge ==
  /\ IsMoveCall
  /\ call.merge_existing /\ ~call.overwrite_files
  /\ isDirectory(pre, MoveDst)
  /\ ~result.isError

\* C10: after a successful merge move with overwrite_files = false, every file
\* the destination had keeps its content, every source file with nothing at its
\* destination path is there with the source's content, the source directory is
\* gone, and (where counters are reported) filesSkipped is the number of source
\* files whose destination path existed and filesMoved the number of the others.
C10_MergeMoveKeepsDestAndMovesTheRest ==
  IsSuccessfulKeepingMerge =>
    /\ \A p \in DestFilesBefore : isFile(fs, p) /\ fs[p].data = pre[p].data
    /\ \A p \in SourceFilesBefore :
         ~HadCounterpart(p) =>
           isFile(fs, Counterpart(p)) /\ fs[Counterpart(p)].data = pre[p].data
    /\ ~exists(fs, MoveSrc)
    /\ call.op = "move_directory_stats" =>
         /\ result.stats.filesSkipped
              = Cardinality({p \in SourceFilesBefore : HadCounterpart(p)})
         /\ result.stats.filesMoved + result.stats.filesSkipped
              = Cardinality(SourceFilesBefore)

\* the scenario of the merge move: x at both ends, y only in the source
C10_Witness ==
  /\ IsSuccessfulKeepingMerge
  /\ call.op = "move_directory_stats"
  /\ isFile(pre, pathJoin(MoveSrc, NameX)) /\ isFile(pre, pathJoin(MoveDst, NameX))
  /\ isFile(pre, pathJoin(MoveSrc, NameY)) /\ ~exists(pre, pathJoin(MoveDst, NameY))
  /\ result.stats.filesSkipped = 1 /\ result.stats.filesMoved = 1
  /\ fs[pathJoin(MoveDst, NameX)].data = FromDest
  /\ fs[pathJoin(MoveDst, NameY)].data = FromSource

\* the source files a keeping merge skips: a file was already at their
\* destination path
SkippedSourceFiles == {p \in SourceFilesBefore : isFile(pre, Counterpart(p))}

\* C11: during a merge move with overwrite_files = false a skipped source file
\* (a file already exists at its destination path) is still at its source path
\* after the call, and so are the directories that contain it, up to the
\* top-level source directory.
C11_SkippedFileStaysAtSource ==
  IsSuccessfulKeepingMerge =>
    \A p \in SkippedSourceFiles :
      /\ isFile(fs, p)
      /\ \A a \in ancestors(p) \cap subtree(pre, MoveSrc) : isDirectory(fs, a)

----------------------------------------------------------------------------
(* Name patterns: the wildcard pattern is turned into a regular expression *)
(* (a sequence of tokens) and the name is tested against it                *)

\* the characters .replace(/[.+^${}()|[\]\\]/g, '\\$&') puts a backslash before
RegexSpecials == {".", "+", "^", "$", "{", "}", "(", ")", "|", "[", "]", "\\"}

\* the three replaces: specials escaped, * to .*, ? to .
regexPatternOf(pat) ==
  [i \in 1..Len(pat) |->
     IF pat[i] \in RegexSpecials THEN [t |-> "lit", c |-> pat[i]]
     ELSE IF pat[i] = "*" THEN [t |-> "anyrun", c |-> ""]
     ELSE IF pat[i] = "?" THEN [t |-> "any", c |-> ""]
     ELSE [t |-> "lit", c |-> pat[i]]]

\* the characters the dot of a regular expression without the s flag does not
\* match
LineTerminators == {"\n", "\r"}

\* new RegExp(`^${regexPattern}$`, ignoreCase ? 'i' : '').test(name)
RECURSIVE regexTestWhole(_, _, _)
regexTestWhole(re, name, ignoreCase) ==
  IF re = <<>> THEN name = <<>>
  ELSE IF Head(re).t = "anyrun"
  THEN \/ regexTestWhole(Tail(re), name, ignoreCase)
       \/ /\ name # <<>>
          /\ Head(name) \notin LineTerminators
          /\ regexTestWhole(re, Tail(name), ignoreCase)
  ELSE IF name = <<>> THEN FALSE
  ELSE IF Head(re).t = "any"
  THEN Head(name) \notin LineTerminators
       /\ regexTestWhole(Tail(re), Tail(name), ignoreCase)
  ELSE /\ IF ignoreCase THEN toLowerChar(Head(re).c) = toLowerChar(Head(name))
                         ELSE Head(re).c = Head(name)
       /\ regexTestWhole(Tail(re), Tail(name), ignoreCase)

----------------------------------------------------------------------------
(* CopyEngine: CopyDirectoryTool                                           *)

\* matchesPattern of copy-directory.ts: always the 'i' flag
copyMatchesPattern(fileName, pattern) ==
  regexTestWhole(regexPatternOf(pattern), fileName, TRUE)

\* a bug shouldIncludeFile could have: the exclude patterns are not looked at
copyShouldIncludeFileNoExclude(fileName, includePatterns, excludePatterns) ==
  IF Len(includePatterns) > 0
     /\ ~\E i \in 1..Len(includePatterns) : copyMatchesPattern(fileName, includePatterns[i])
  THEN FALSE
  ELSE TRUE

copyShouldIncludeFile(fileName, includePatterns, excludePatterns) ==
  IF Len(includePatterns) > 0
     /\ ~\E i \in 1..Len(includePatterns) : copyMatchesPattern(fileName, includePatterns[i])
  THEN FALSE
  ELSE IF Len(excludePatterns) > 0
          /\ \E i \in 1..Len(excludePatterns) :
               copyMatchesPattern(fileName, excludePatterns[i])
  THEN FALSE
  ELSE TRUE

NoCopyStats ==
  [filescopied |-> 0, directoriesCreated |-> 0, filesSkipped |-> 0, totalSize |-> 0]

CopyStart(f) ==
  [fs |-> f, log |-> {}, err |-> NoErr, msg |-> <<>>, stats |-> NoCopyStats]

CopyResponse(stats) ==
  [isError |-> FALSE, kind |-> "success", error |-> NoErr, detail |-> NoErr,
   summary |-> <<>>, message |-> <<>>, stats |-> stats]

\* createErrorResponse(error): the text of the error and nothing else
CopyErrorResponse(st) ==
  [isError |-> TRUE, kind |-> "error", error |-> st.err, detail |-> NoErr,
   summary |-> <<>>, message |-> st.msg]

\* a bug the file branch could have: a file is copied whether or not something
\* is at its destination path
copyFileEntryAlwaysCopies(st, entry, sourcePath, destPath, options) ==
  IF ~copyShouldIncludeFile(entry.name, options.includePatterns,
                            options.excludePatterns)
  THEN [st EXCEPT !.stats.filesSkipped = @ + 1]
  ELSE Await(fsCopyFile(st, sourcePath, destPath), LAMBDA c :
      IF c.err # NoErr THEN c
      ELSE Await(fsStat([c EXCEPT !.stats.filescopied = @ + 1], destPath), LAMBDA d :
        IF d.err # NoErr THEN d
        ELSE Await([d EXCEPT !.stats.totalSize = @ + sizeOf(d.fs[destPath])],
                   LAMBDA e :
          IF ~options.preserveTimestamps THEN e
          ELSE Await(fsStat(e, sourcePath), LAMBDA g :
                 IF g.err # NoErr THEN g
                 ELSE fsUtimes(g, destPath, g.fs[sourcePath].mtime)))))

\* copyDirectoryRecursive, the entry.isFile() branch
copyFileEntry(st, entry, sourcePath, destPath, options) ==
  IF ~copyShouldIncludeFile(entry.name, options.includePatterns,
                            options.excludePatterns)
  THEN [st EXCEPT !.stats.filesSkipped = @ + 1]
  ELSE Await(IF options.overwrite THEN st ELSE fsAccess(st, destPath), LAMBDA a :
    IF ~options.overwrite /\ a.err = NoErr
    THEN [a EXCEPT !.stats.filesSkipped = @ + 1]
    ELSE Await(fsCopyFile(caught(a), sourcePath, destPath), LAMBDA c :
      IF c.err # NoErr THEN c
      ELSE Await(fsStat([c EXCEPT !.stats.filescopied = @ + 1], destPath), LAMBDA d :
        IF d.err # NoErr THEN d
        ELSE Await([d EXCEPT !.stats.totalSize = @ + sizeOf(d.fs[destPath])],
                   LAMBDA e :
          IF ~options.preserveTimestamps THEN e
          ELSE Await(fsStat(e, sourcePath), LAMBDA g :
                 IF g.err # NoErr THEN g
                 ELSE fsUtimes(g, destPath, g.fs[sourcePath].mtime))))))

RECURSIVE copyDirectoryRecursive(_, _, _, _, _)
RECURSIVE copyDirectoryLoop(_, _, _, _, _, _)

\* copyDirectoryRecursive, the body of the loop for one entry
copyDirectoryEntry(st, entry, sourceDir, destDir, options, depth) ==
  LET sourcePath == pathJoin(sourceDir, entry.name)
      destPath   == pathJoin(destDir, entry.name)
  IN IF ~isPathAllowed(sourcePath) \/ ~isPathAllowed(destPath)
     THEN logged(st, "skipDenied", sourcePath)
     ELSE IF entry.kind = "dir"
     THEN (IF options.recursive
           THEN copyDirectoryRecursive(st, sourcePath, destPath, options, depth + 1)
           ELSE st)
     ELSE IF entry.kind = "file"
     THEN copyFileEntry(st, entry, sourcePath, destPath, options)
     ELSE st

copyDirectoryLoop(st, entries, sourceDir, destDir, options, depth) ==
  IF entries = <<>> \/ st.err # NoErr THEN st
  ELSE Await(copyDirectoryEntry(st, Head(entries), sourceDir, destDir, options,
                                depth), LAMBDA s :
         copyDirectoryLoop(s, Tail(entries), sourceDir, destDir, options, depth))

copyDirectoryRecursive(st, sourceDir, destDir, options, depth) ==
  IF depth > options.maxDepth THEN st
  ELSE Await(fsMkdirRecursive(st, destDir), LAMBDA m :
    Await(fsReaddir(IF m.err = NoErr
                    THEN [m EXCEPT !.stats.directoriesCreated = @ + 1]
                    ELSE caught(m), sourceDir), LAMBDA r :
      IF r.err # NoErr THEN r
      ELSE Await(entriesOf(r.fs, sourceDir, options.order), LAMBDA entries :
             copyDirectoryLoop(r, entries, sourceDir, destDir, options, depth))))

\* execute, the defaults of the arguments
copyOptions(args) ==
  [recursive |-> args.recursive # Some(FALSE),
   overwrite |-> args.overwrite,
   includePatterns |-> args.include_patterns,
   excludePatterns |-> args.exclude_patterns,
   preserveTimestamps |-> args.preserve_timestamps # Some(FALSE),
   maxDepth |-> IF TruthyNum(args.max_depth) THEN args.max_depth[1] ELSE 50,
   order |-> args.order]

\* a bug execute could have: the copy starts without the two sandbox checks
copyExecuteUnchecked(f, args) ==
  LET st == CopyStart(f)
      resolvedSource      == resolve(args.source)
      resolvedDestination == resolve(args.destination)
  IN Await(fsStat(st, resolvedSource), LAMBDA s1 :
       IF s1.err # NoErr \/ ~isDirectory(s1.fs, resolvedSource)
       THEN LET e == raise(s1, "NotFound",
                           Message("Source directory does not exist: ", args.source))
            IN [st |-> e, result |-> CopyErrorResponse(e)]
       ELSE Await(copyDirectoryRecursive(caught(fsStat(s1, resolvedDestination)),
                    resolvedSource, resolvedDestination, copyOptions(args), 0),
                  LAMBDA c :
              IF c.err # NoErr
              THEN [st |-> c, result |-> CopyErrorResponse(msgd(c, resolvedSource))]
              ELSE [st |-> c, result |-> CopyResponse(c.stats)]))

\* CopyDirectoryTool.execute
copyExecute(f, args) ==
  LET st == CopyStart(f)
      resolvedSource      == resolve(args.source)
      resolvedDestination == resolve(args.destination)
  IN IF ~isPathAllowed(resolvedSource)
     THEN LET e == raise(st, "AccessDenied",
                         Message("Access denied to source: ", args.source))
          IN [st |-> e, result |-> CopyErrorResponse(e)]
     ELSE IF ~isPathAllowed(resolvedDestination)
     THEN LET e == raise(st, "AccessDenied",
                         Message("Access denied to destination: ", args.destination))
          IN [st |-> e, result |-> CopyErrorResponse(e)]
     ELSE Await(fsStat(st, resolvedSource), LAMBDA s1 :
       IF s1.err # NoErr \/ ~isDirectory(s1.fs, resolvedSource)
       THEN LET e == raise(s1, "NotFound",
                           Message("Source directory does not exist: ", args.source))
            IN [st |-> e, result |-> CopyErrorResponse(e)]
       ELSE IF startsWith(resolvedDestination, resolvedSource \o <<Sep>>)
       THEN LET e == raise(s1, "IntoItself",
                           Message("Cannot copy directory into itself: ",
                                   args.destination))
            IN [st |-> e, result |-> CopyErrorResponse(e)]
       ELSE Await(copyDirectoryRecursive(caught(fsStat(s1, resolvedDestination)),
                    resolvedSource, resolvedDestination, copyOptions(args), 0),
                  LAMBDA c :
              IF c.err # NoErr
              THEN [st |-> c, result |-> CopyErrorResponse(msgd(c, resolvedSource))]
              ELSE [st |-> c, result |-> CopyResponse(c.stats)]))

----------------------------------------------------------------------------
(* SearchEngine: SearchFilesTool                                           *)

\* matchesPattern of search-files.ts: no pattern matches everything; without
\* case_sensitive both the name and the pattern are lowercased
searchMatchesPattern(fileName, pattern, caseSensitive) ==
  IF ~TruthyStr(pattern) THEN TRUE
  ELSE LET name == IF caseSensitive THEN fileName ELSE toLowerCase(fileName)
           pat  == IF caseSensitive THEN pattern[1] ELSE toLowerCase(pattern[1])
       IN regexTestWhole(regexPatternOf(pat), name, FALSE)

\* path.extname(fileName).slice(1): what follows the last dot, unless the only
\* dot is the first character
extnameTail(fileName) ==
  LET dots == {i \in 1..Len(fileName) : fileName[i] = "."}
      last == CHOOSE i \in dots : \A j \in dots : j <= i
  IN IF dots = {} \/ last = 1 THEN <<>> ELSE SubSeq(fileName, last + 1, Len(fileName))

searchShouldIncludeFile(fileName, options) ==
  IF TruthyStr(options.fileType)
     /\ toLowerCase(extnameTail(fileName)) # toLowerCase(options.fileType[1])
  THEN FALSE
  ELSE IF TruthyStr(options.pattern)
  THEN searchMatchesPattern(fileName, options.pattern, options.caseSensitive)
  ELSE TRUE

\* path.relative(directory, fullPath) for a fullPath below directory
relative(directory, fullPath) ==
  SubSeq(fullPath, Len(pathJoin(directory, <<>>)) + 1, Len(fullPath))

\* String.prototype.trim
RECURSIVE trimStart(_)
trimStart(s) == IF s # <<>> /\ Head(s) = " " THEN trimStart(Tail(s)) ELSE s
RECURSIVE trimEnd(_)
trimEnd(s) ==
  IF s # <<>> /\ s[Len(s)] = " " THEN trimEnd(SubSeq(s, 1, Len(s) - 1)) ELSE s
trim(s) == trimEnd(trimStart(s))

\* new RegExp(searchText) throws a SyntaxError: a parenthesis without its
\* partner, or a quantifier with nothing to repeat.  (Search texts are letters,
\* ".", and these.)
RECURSIVE parenDepthOk(_, _)
parenDepthOk(text, depth) ==
  IF text = <<>> THEN depth = 0
  ELSE IF Head(text) = "(" THEN parenDepthOk(Tail(text), depth + 1)
  ELSE IF Head(text) = ")" THEN depth > 0 /\ parenDepthOk(Tail(text), depth - 1)
  ELSE parenDepthOk(Tail(text), depth)

regexSyntaxError(text) ==
  \/ ~parenDepthOk(text, 0)
  \/ text # <<>> /\ Head(text) \in {"*", "+", "?"}

\* searchRegex.test(line) for a text of letters and ".": found anywhere in the
\* line, "." standing for any character
regexTest(text, line, ignoreCase) ==
  \E off \in 0..(Len(line) - Len(text)) :
    \A i \in 1..Len(text) :
      \/ text[i] = "."
      \/ IF ignoreCase THEN toLowerChar(text[i]) = toLowerChar(line[off + i])
                       ELSE text[i] = line[off + i]

\* searchFileContent, the context of line i (0-based): its neighbours
contextOf(lines, i) ==
  LET start == IF i - 1 > 0 THEN i - 1 ELSE 0
      end   == IF Len(lines) - 1 < i + 1 THEN Len(lines) - 1 ELSE i + 1
      js    == SelectSeq([k \in 1..(end - start + 1) |-> start + k - 1],
                         LAMBDA j : j # i)
  IN [k \in 1..Len(js) |-> [line |-> js[k] + 1, content |-> trim(lines[js[k] + 1])]]

\* searchFileContent: [st, matches]; every throw inside ends with no matches
searchFileContent(st, filePath, searchText, caseSensitive, showContext) ==
  Await(fsReadFile(st, filePath), LAMBDA r :
    IF r.err # NoErr THEN [st |-> caught(r), matches |-> <<>>]
    ELSE IF regexSyntaxError(searchText) THEN [st |-> r, matches |-> <<>>]
    ELSE LET lines == split(r.fs[realpathOf(r.fs, filePath)].data, "\n")
             hits  == SelectSeq([k \in 1..Len(lines) |-> k],
                        LAMBDA k : regexTest(searchText, lines[k], ~caseSensitive))
         IN [st |-> r,
             matches |-> [k \in 1..Len(hits) |->
                            [line |-> hits[k], content |-> trim(lines[hits[k]]),
                             context |-> IF showContext
                                         THEN contextOf(lines, hits[k] - 1)
                                         ELSE <<>>]]])

SearchStart(f) ==
  [fs |-> f, log |-> {}, err |-> NoErr, msg |-> <<>>, results |-> <<>>,
   visited |-> {}]

push(st, r) == [st EXCEPT !.results = Append(@, r)]

SearchResult(file, type, node, matches) ==
  [file |-> file, type |-> type, size |-> Some(sizeOf(node)),
   modified |-> node.mtime, matches |-> matches]

\* searchRecursive, the entry.isFile() branch
searchFileEntry(st, entry, fullPath, relativePath, options) ==
  IF ~searchShouldIncludeFile(entry.name, options) THEN st
  ELSE Await(fsStat(st, fullPath), LAMBDA s :
    IF s.err # NoErr THEN s
    ELSE IF TruthyStr(options.content)
    THEN Await(searchFileContent(s, fullPath, options.content[1],
                                 options.caseSensitive, options.showContext),
               LAMBDA m :
           IF Len(m.matches) > 0
           THEN push(m.st, SearchResult(relativePath, "file",
                                        s.fs[realpathOf(s.fs, fullPath)],
                                        Some(m.matches)))
           ELSE m.st)
    ELSE push(s, SearchResult(relativePath, "file",
                              s.fs[realpathOf(s.fs, fullPath)], Undef)))

RECURSIVE searchRecursive(_, _, _, _)
RECURSIVE searchLoop(_, _, _, _, _)

\* a bug the traversal could have: a symbolic link to a directory is entered
\* like a directory, and no directory is remembered as visited
searchRecursiveUnguarded(st, currentDir, options, depth) ==
  IF depth > options.maxDepth \/ Len(st.results) >= options.maxResults THEN st
  ELSE Await(fsRealpath(st, currentDir), LAMBDA rp :
    IF rp.err # NoErr THEN rp
    ELSE Await(fsReaddir(rp, currentDir), LAMBDA r :
      IF r.err # NoErr THEN caught(r)
      ELSE Await(entriesOf(r.fs, currentDir, options.order), LAMBDA entries :
             caught(searchLoop(r, entries, currentDir, options, depth)))))

searchEntryFollowingLinks(st, entry, currentDir, options, depth) ==
  LET fullPath     == pathJoin(currentDir, entry.name)
      relativePath == relative(options.directory, fullPath)
      target       == realpathOf(st.fs, fullPath)
  IN IF ~isPathAllowed(fullPath) THEN logged(st, "skipDenied", fullPath)
     ELSE IF ~options.includeHidden /\ startsWith(entry.name, <<".">>) THEN st
     ELSE IF isDirectory(st.fs, target)
     THEN searchRecursiveUnguarded(
            push(st, [file |-> relativePath, type |-> "directory", size |-> Undef,
                      modified |-> st.fs[target].mtime, matches |-> Undef]),
            fullPath, options, depth + 1)
     ELSE IF entry.kind = "file"
     THEN searchFileEntry(st, entry, fullPath, relativePath, options)
     ELSE st

\* searchRecursive, the body of the loop for one entry
searchEntry(st, entry, currentDir, options, depth) ==
  LET fullPath     == pathJoin(currentDir, entry.name)
      relativePath == relative(options.directory, fullPath)
  IN IF ~isPathAllowed(fullPath) THEN logged(st, "skipDenied", fullPath)
     ELSE IF ~options.includeHidden /\ startsWith(entry.name, <<".">>) THEN st
     ELSE IF entry.kind = "dir"
     THEN Await(IF searchMatchesPattern(entry.name, options.pattern,
                                        options.caseSensitive)
                THEN Await(fsStat(st, fullPath), LAMBDA s :
                       IF s.err # NoErr THEN s
                       ELSE push(s, [file |-> relativePath, type |-> "directory",
                                     size |-> Undef,
                                     modified |->
                                       s.fs[realpathOf(s.fs, fullPath)].mtime,
                                     matches |-> Undef]))
                ELSE st, LAMBDA s :
            IF s.err # NoErr THEN s
            ELSE searchRecursive(s, fullPath, options, depth + 1))
     ELSE IF entry.kind = "file"
     THEN searchFileEntry(st, entry, fullPath, relativePath, options)
     ELSE st

searchLoop(st, entries, currentDir, options, depth) ==
  IF entries = <<>> \/ st.err # NoErr THEN st
  ELSE IF Len(st.results) >= options.maxResults THEN st
  ELSE Await(searchEntry(st, Head(entries), currentDir, options, depth), LAMBDA s :
         searchLoop(s, Tail(entries), currentDir, options, depth))

searchRecursive(st, currentDir, options, depth) ==
  IF depth > options.maxDepth \/ Len(st.results) >= options.maxResults THEN st
  ELSE Await(fsRealpath(st, currentDir), LAMBDA rp :
    IF rp.err # NoErr THEN rp
    ELSE IF realpathOf(rp.fs, currentDir) \in rp.visited THEN rp
    ELSE Await(fsReaddir([rp EXCEPT !.visited = @ \cup {realpathOf(rp.fs, currentDir)}],
                         currentDir),
               LAMBDA r :
      IF r.err # NoErr THEN caught(r)
      ELSE Await(entriesOf(r.fs, currentDir, options.order), LAMBDA entries :
             caught(searchLoop(r, entries, currentDir, options, depth)))))

\* the comparator of results.sort
compareResults(a, b) ==
  LET aHas == a.matches # Undef /\ Len(a.matches[1]) > 0
      bHas == b.matches # Undef /\ Len(b.matches[1]) > 0
  IN IF aHas /\ ~bHas THEN -1
     ELSE IF bHas /\ ~aHas THEN 1
     ELSE IF a.matches # Undef /\ b.matches # Undef
     THEN Len(b.matches[1]) - Len(a.matches[1])
     ELSE localeCompare(a.file, b.file)

\* Array.prototype.sort (stable) with that comparator
RECURSIVE insertResult(_, _)
insertResult(sorted, r) ==
  IF sorted = <<>> THEN <<r>>
  ELSE IF compareResults(sorted[Len(sorted)], r) <= 0 THEN Append(sorted, r)
  ELSE Append(insertResult(SubSeq(sorted, 1, Len(sorted) - 1), r),
              sorted[Len(sorted)])

RECURSIVE sortResults(_)
sortResults(results) ==
  IF results = <<>> THEN <<>>
  ELSE insertResult(sortResults(SubSeq(results, 1, Len(results) - 1)),
                    results[Len(results)])

\* searchFiles: traverse, sort, slice(0, maxResults)
searchFiles(st, options) ==
  Await(searchRecursive(st, options.directory, options, 0), LAMBDA s :
    IF s.err # NoErr THEN s
    ELSE Await(sortResults(s.results), LAMBDA sorted :
           [s EXCEPT !.results =
              SubSeq(sorted, 1,
                     IF Len(sorted) < options.maxResults THEN Len(sorted)
                     ELSE options.maxResults)]))

\* formatResults: the directories, then the files, each in result order
SearchResponse(results) ==
  [isError |-> FALSE, kind |-> "success", error |-> NoErr, detail |-> NoErr,
   summary |-> <<>>, message |-> <<>>,
   results |-> results,
   listing |-> SelectSeq(results, LAMBDA r : r.type = "directory")
               \o SelectSeq(results, LAMBDA r : r.type = "file")]

SearchErrorResponse(st) ==
  [isError |-> TRUE, kind |-> "error", error |-> st.err, detail |-> NoErr,
   summary |-> <<>>, message |-> st.msg, results |-> <<>>, listing |-> <<>>]

\* execute, the defaults of the arguments
searchOptions(args, resolvedDirectory) ==
  [directory |-> resolvedDirectory,
   pattern |-> args.pattern,
   content |-> args.content,
   fileType |-> args.file_type,
   includeHidden |-> args.include_hidden,
   maxDepth |-> IF TruthyNum(args.max_depth) THEN args.max_depth[1] ELSE 10,
   caseSensitive |-> args.case_sensitive,
   showContext |-> TRUE,
   maxResults |-> IF TruthyNum(args.max_results) THEN args.max_results[1] ELSE 100,
   order |-> args.order]

\* SearchFilesTool.execute
searchExecute(f, args) ==
  LET st == SearchStart(f)
      directory == IF TruthyStr(args.directory) THEN args.directory[1]
                   ELSE allowedDirectories[1]
      resolvedDirectory == resolve(directory)
  IN IF ~isPathAllowed(resolvedDirectory)
     THEN LET e == raise(st, "AccessDenied", Message("Access denied: ", directory))
          IN [st |-> e, result |-> SearchErrorResponse(e)]
     ELSE Await(fsStat(st, resolvedDirectory), LAMBDA s1 :
       IF s1.err # NoErr \/ ~isDirectory(s1.fs, realpathOf(s1.fs, resolvedDirectory))
       THEN LET e == raise(s1, "NotFound",
                           Message("Directory does not exist: ", directory))
            IN [st |-> e, result |-> SearchErrorResponse(e)]
       ELSE Await(searchFiles(s1, searchOptions(args, resolvedDirectory)), LAMBDA s :
              IF s.err # NoErr
              THEN [st |-> s, result |-> SearchErrorResponse(msgd(s, resolvedDirectory))]
              ELSE [st |-> s, result |-> SearchResponse(s.results)]))

----------------------------------------------------------------------------
(* Requests to copy_directory and search_files                             *)

CopyArgs(sources, destinations, overwrites, includeLists, excludeLists, depths, orders) ==
  { [op |-> "copy_directory", source |-> s, destination |-> d,
     recursive |-> r, overwrite |-> o, include_patterns |-> inc,
     exclude_patterns |-> exc, preserve_timestamps |-> t, max_depth |-> md,
     order |-> ord]
    : s \in sources, d \in destinations, r \in {Undef, Some(FALSE)},
      o \in overwrites, inc \in includeLists, exc \in excludeLists,
      t \in {Undef, Some(FALSE)}, md \in depths, ord \in orders }

\* the server answers one copy_directory request
CopyDirectory(argSet) ==
  /\ call.op = "idle"
  /\ \E args \in argSet :
       LET r == copyExecute(fs, args)
       IN /\ call' = args
          /\ fs' = r.st.fs
          /\ log' = r.st.log
          /\ result' = r.result
          /\ pre' = fs
  /\ UNCHANGED allowedDirectories

SearchArgs(directories, patterns, contents, fileTypes, depths, limits, orders) ==
  { [op |-> "search_files", directory |-> d, pattern |-> p, content |-> c,
     file_type |-> ft, include_hidden |-> h, max_depth |-> md,
     case_sensitive |-> cs, max_results |-> mr, order |-> ord]
    : d \in directories, p \in patterns, c \in contents, ft \in fileTypes,
      h \in BOOLEAN, md \in depths, cs \in BOOLEAN, mr \in limits, ord \in orders }

\* the server answers one search_files request
SearchFiles(argSet) ==
  /\ call.op = "idle"
  /\ \E args \in argSet :
       LET r == searchExecute(fs, args)
       IN /\ call' = args
          /\ fs' = r.st.fs
          /\ log' = r.st.log
          /\ result' = r.result
          /\ pre' = fs
  /\ UNCHANGED allowedDirectories

----------------------------------------------------------------------------
(* SpecAccess: one request to any of the four tools, on paths inside and   *)
(* outside the allowed directory /r                                        *)

AccessRoot == <<"/", "r">>

InsideDir   == <<"/", "r", "/", "s">>
InsideDest  == <<"/", "r", "/", "d">>
InsideFile  == <<"/", "r", "/", "f">>
OutsideDir  == <<"/", "o", "/", "s">>
OutsideDest == <<"/", "o", "/", "d">>
OutsideFile == <<"/", "o", "/", "f">>
\* paths that begin in /r and leave it
EscapingDir  == <<"/", "r", "/", ".", ".", "/", "o", "/", "s">>
EscapingFile == <<"/", "r", "/", ".", ".", "/", "o", "/", "f">>

\* a directory p holding the file x and the subdirectory k with its own x
SmallTree(p) ==
  (p :> DirNode)
  @@ (pathJoin(p, NameX) :> FileAt(FromSource, 1))
  @@ (pathJoin(p, NameK) :> DirNode)
  @@ (pathJoin(pathJoin(p, NameK), NameX) :> FileAt(FromSource, 1))

AccessFs ==
  SmallTree(InsideDir) @@ SmallTree(OutsideDir)
  @@ (InsideFile :> FileNode(join(FileLines, "\n"), 0))
  @@ (OutsideFile :> FileNode(join(FileLines, "\n"), 0))
  @@ (AccessRoot :> DirNode) @@ (<<"/", "o">> :> DirNode) @@ EmptyFs

InitAccess ==
  /\ allowedDirectories = <<AccessRoot>>
  /\ \E dests \in SUBSET {InsideDest, OutsideDest} :
       fs = [d \in dests |-> DirNode] @@ AccessFs
  /\ call = Idle
  /\ result = NoResult
  /\ pre = fs
  /\ log = {}

AccessDirs  == {InsideDir, OutsideDir, EscapingDir}
AccessDests == {InsideDest, OutsideDest}
AccessFiles == {InsideFile, OutsideFile, EscapingFile}

AccessEdits == {Replace(Some(1), Undef, Some(NewText)), Delete(Some(2))}

\* the requests of each tool that the scenario issues
AccessSearches ==
  SearchArgs({Undef} \cup {Some(d) : d \in AccessDirs},
             {Undef, Some(NameX)}, {Undef, Some(FromSource)},
             {Undef}, {Undef}, {Undef}, EntryOrders)
AccessCopies ==
  CopyArgs(AccessDirs, AccessDests, BOOLEAN, {<<>>}, {<<>>}, {Undef}, EntryOrders)
AccessBatches == SeqsUpTo(AccessEdits, 1)

NextAccess ==
  \/ SearchFiles(AccessSearches)
  \/ CopyDirectory(AccessCopies)
  \/ MoveDirectory(AccessDirs, AccessDests)
  \/ MoveDirectoryP3(AccessDirs, AccessDests)
  \/ EditFilePatch(AccessFiles, AccessBatches)

SpecAccess == InitAccess /\ [][NextAccess]_vars

\* the paths a request names
RequestedPaths ==
  CASE call.op = "search_files" ->
         {IF TruthyStr(call.directory) THEN call.directory[1]
          ELSE allowedDirectories[1]}
    [] call.op \in {"copy_directory", "move_directory", "move_directory_stats"} ->
         {call.source, call.destination}
    [] call.op = "edit_file_patch" -> {call.path}
    [] OTHER -> {}

RejectedPaths == {resolve(p) : p \in {q \in RequestedPaths : ~isPathAllowed(resolve(q))}}

\* some fs call was made on p
Touched(p) == \E e \in log : e[2] = p /\ e[1] # "skipDenied"

IsAccessDenied == result.isError /\ result.error = "AccessDenied"

----------------------------------------------------------------------------
(* SpecCopy: a copy_directory request on /r/s and /r/d, and the same       *)
(* request once more after it succeeded                                    *)

CopyRoot == <<"/", "r">>
CopySource == <<"/", "r", "/", "s">>
CopyDest == <<"/", "r", "/", "d">>

NameA == <<"a", ".", "t">>
NameB == <<"b", ".", "l">>

\* the time the files of the scenario were last written
Earlier == 3

\* a source directory: files a.t and b.l, subdirectory k (absent, empty, or
\* holding a.t)
CopySourceTrees ==
  { (CopySource :> DirNode)
    @@ (IF a THEN (pathJoin(CopySource, NameA) :> FileAt(FromSource, Earlier)) ELSE <<>>)
    @@ (IF b THEN (pathJoin(CopySource, NameB) :> FileAt(FromSource \o FromSource, Earlier))
             ELSE <<>>)
    @@ (CASE k = "absent" -> <<>>
          [] k = "empty"  -> (pathJoin(CopySource, NameK) :> DirNode)
          [] k = "full"   -> (pathJoin(CopySource, NameK) :> DirNode)
                             @@ (pathJoin(pathJoin(CopySource, NameK), NameA)
                                   :> FileAt(FromSource, Earlier)))
    : a \in BOOLEAN, b \in BOOLEAN, k \in {"absent", "empty", "full"} }

\* what is at the destination: nothing, a file, or a directory whose a.t is
\* absent, a file or a directory and whose k is absent, a directory or a file
CopyDestTrees ==
  { <<>>, (CopyDest :> FileAt(FromDest, Earlier)) }
  \cup
  { (CopyDest :> DirNode)
    @@ (CASE a = "absent" -> <<>>
          [] a = "file"   -> (pathJoin(CopyDest, NameA) :> FileAt(FromDest, Earlier))
          [] a = "dir"    -> (pathJoin(CopyDest, NameA) :> DirNode))
    @@ (CASE k = "absent" -> <<>>
          [] k = "dir"    -> (pathJoin(CopyDest, NameK) :> DirNode)
          [] k = "file"   -> (pathJoin(CopyDest, NameK) :> FileAt(FromDest, Earlier)))
    : a \in {"absent", "file", "dir"}, k \in {"absent", "dir", "file"} }

InitCopy ==
  /\ allowedDirectories = <<CopyRoot>>
  /\ \E s \in CopySourceTrees, t \in CopyDestTrees :
       fs = s @@ t @@ (CopyRoot :> DirNode) @@ EmptyFs
  /\ call = Idle
  /\ result = NoResult
  /\ pre = fs
  /\ log = {}

\* the patterns of the scenario: *.t and B.* (the name b.l in capitals)
PatternT == <<"*", ".", "t">>
PatternB == <<"B", ".", "*">>

CopyRequests ==
  CopyArgs({CopySource}, {CopyDest}, BOOLEAN, {<<>>, <<PatternT>>},
           {<<>>, <<PatternB>>, <<PatternT>>}, {Undef}, EntryOrders)

\* the server answers the copy_directory request it answered before, again
CopyDirectoryAgain ==
  /\ call.op = "copy_directory"
  /\ ~result.isError
  /\ LET r == copyExecute(fs, call)
     IN /\ call' = [call EXCEPT !.op = "copy_directory_again"]
        /\ fs' = r.st.fs
        /\ log' = r.st.log
        /\ result' = r.result
        /\ pre' = fs
  /\ UNCHANGED allowedDirectories

NextCopy ==
  \/ CopyDirectory(CopyRequests)
  \/ CopyDirectoryAgain

SpecCopy == InitCopy /\ [][NextCopy]_vars

----------------------------------------------------------------------------
(* Claims about copy_directory                                             *)

IsCopyCall == call.op \in {"copy_directory", "copy_directory_again"}

CopySrc == resolve(call.source)
CopyDst == resolve(call.destination)

\* the depth of a path below the source directory: the base has depth 0
RECURSIVE separators(_)
separators(s) ==
  IF s = <<>> THEN 0 ELSE (IF Head(s) = Sep THEN 1 ELSE 0) + separators(Tail(s))

DepthBelow(base, p) == separators(SubSeq(p, Len(base) + 1, Len(p)))

CopyDepthLimit == IF TruthyNum(call.max_depth) THEN call.max_depth[1] ELSE 50

\* the directories of the source tree the request traverses, and the regular
\* files in them
CopyVisitedDirs ==
  {d \in subtree(pre, CopySrc) :
     /\ isDirectory(pre, d)
     /\ d = CopySrc \/ call.recursive # Some(FALSE)
     /\ DepthBelow(CopySrc, d) <= CopyDepthLimit}

CopyVisitedFiles == {p \in DOMAIN pre : isFile(pre, p) /\ dirname(p) \in CopyVisitedDirs}

CopyDestOf(p) == CopyDst \o SubSeq(p, Len(CopySrc) + 1, Len(p))

\* the whole name matches the glob: * any run, ? one character, any other
\* character itself
RECURSIVE GlobMatch(_, _, _)
GlobMatch(pat, name, ignoreCase) ==
  IF pat = <<>> THEN name = <<>>
  ELSE IF Head(pat) = "*"
  THEN GlobMatch(Tail(pat), name, ignoreCase)
       \/ (name # <<>> /\ GlobMatch(pat, Tail(name), ignoreCase))
  ELSE /\ name # <<>>
       /\ \/ Head(pat) = "?"
          \/ Head(pat) = Head(name)
          \/ ignoreCase /\ toLowerChar(Head(pat)) = toLowerChar(Head(name))
       /\ GlobMatch(Tail(pat), Tail(name), ignoreCase)

\* copy patterns ignore letter case
Glob(pat, name) == GlobMatch(pat, name, TRUE)

PassesFilters(p) ==
  /\ Len(call.include_patterns) > 0 =>
       \E i \in 1..Len(call.include_patterns) : Glob(call.include_patterns[i], basename(p))
  /\ \A i \in 1..Len(call.exclude_patterns) : ~Glob(call.exclude_patterns[i], basename(p))

ShouldBeCopied(p) == PassesFilters(p) /\ (call.overwrite \/ ~exists(pre, CopyDestOf(p)))

\* the call copied p: fs.copyFile was called on its destination path
WasCopied(p) == <<"copyFile", CopyDestOf(p)>> \in log

\* C12: in a successful copy_directory every regular file visited is copied iff
\* it passes the include and exclude patterns and either overwrite is true or
\* nothing is at its destination path; otherwise it is skipped; filesCopied
\* counts the former, filesSkipped the latter, and together they count every
\* regular file visited.
C12_EveryFileCopiedOrSkippedOnce ==
  IsCopyCall /\ ~result.isError =>
    /\ \A p \in CopyVisitedFiles : WasCopied(p) <=> ShouldBeCopied(p)
    /\ result.stats.filescopied
         = Cardinality({p \in CopyVisitedFiles : ShouldBeCopied(p)})
    /\ result.stats.filesSkipped
         = Cardinality({p \in CopyVisitedFiles : ~ShouldBeCopied(p)})

\* copy with filter: a.t and b.l in the source, include *.t; a.t is copied and
\* b.l is skipped
C12_Witness ==
  /\ call.op = "copy_directory" /\ ~result.isError
  /\ call.include_patterns = <<PatternT>> /\ call.exclude_patterns = <<>>
  /\ isFile(pre, pathJoin(CopySrc, NameA)) /\ isFile(pre, pathJoin(CopySrc, NameB))
  /\ ~exists(pre, pathJoin(CopySrc, NameK))
  /\ ~exists(pre, CopyDst)
  /\ result.stats.filescopied = 1 /\ result.stats.filesSkipped = 1
  /\ isFile(fs, pathJoin(CopyDst, NameA)) /\ ~exists(fs, pathJoin(CopyDst, NameB))

\* the destination tree is what it was before the call
CopyDestUnchanged ==
  /\ subtree(fs, CopyDst) = subtree(pre, CopyDst)
  /\ \A q \in subtree(pre, CopyDst) : fs[q] = pre[q]

\* C13: the same copy_directory request with overwrite = false, run a second
\* time after it succeeded, copies no file and no byte, reports filesSkipped
\* equal to the number of regular files in the traversed source tree, and leaves
\* the destination tree unchanged.
C13_SecondCopyCopiesNothing ==
  call.op = "copy_directory_again" /\ ~call.overwrite /\ ~result.isError =>
    /\ result.stats.filescopied = 0
    /\ result.stats.totalSize = 0
    /\ result.stats.filesSkipped = Cardinality(CopyVisitedFiles)
    /\ CopyDestUnchanged

\* the second run finds a.t and k/a.t where the first run copied them
C13_Witness ==
  /\ call.op = "copy_directory_again" /\ ~call.overwrite /\ ~result.isError
  /\ call.include_patterns = <<>> /\ call.exclude_patterns = <<>>
  /\ isFile(pre, pathJoin(CopyDst, NameA))
  /\ pre[pathJoin(CopyDst, NameA)].data = FromSource
  /\ isFile(pre, pathJoin(pathJoin(CopyDst, NameK), NameA))
  /\ result.stats.filesSkipped = 3

RECURSIVE SumOfSizes(_)
SumOfSizes(S) ==
  IF S = {} THEN 0
  ELSE LET p == CHOOSE q \in S : TRUE IN sizeOf(pre[p]) + SumOfSizes(S \ {p})

C15_NonDirectoryDestinationFails ==
  IsCopyCall /\ exists(pre, CopyDst) /\ ~isDirectory(pre, CopyDst) =>
    result.isError /\ fs = pre

\* the files the call had copied when it was aborted
CopiedBeforeAbort ==
  {p \in CopyVisitedFiles :
     /\ WasCopied(p)
     /\ isFile(fs, CopyDestOf(p))
     /\ fs[CopyDestOf(p)].data = pre[p].data}

\* C17: when copy_directory is aborted by an I/O error after some files were
\* copied, the result still reports the statistics accumulated so far.
C17_AbortedCopyReportsStatistics ==
  IsCopyCall /\ result.isError /\ CopiedBeforeAbort # {} =>
    /\ "stats" \in DOMAIN result
    /\ result.stats.filescopied = Cardinality(CopiedBeforeAbort)

----------------------------------------------------------------------------
(* SpecNested: copy_directory and move_directory of /r/s onto itself, into *)
(* itself, and onto its string-prefix sibling /r/s2                        *)

NestedDest == pathJoin(MoveSource, <<"n">>)
SiblingDest == MoveSource \o <<"2">>

NestedDestinations == {MoveSource, NestedDest, SiblingDest}

\* the sibling: absent, an empty directory, or a directory holding x
SiblingTrees ==
  { <<>>,
    (SiblingDest :> DirNode),
    (SiblingDest :> DirNode) @@ (pathJoin(SiblingDest, NameX) :> FileNode(FromDest, 0)) }

InitNested ==
  /\ allowedDirectories = <<MoveRoot>>
  /\ \E s \in SourceTrees, t \in SiblingTrees :
       fs = s @@ t @@ (MoveRoot :> DirNode) @@ EmptyFs
  /\ call = Idle
  /\ result = NoResult
  /\ pre = fs
  /\ log = {}

NestedCopies ==
  CopyArgs({MoveSource}, NestedDestinations, BOOLEAN, {<<>>}, {<<>>}, {Undef},
           EntryOrders)

NextNested ==
  \/ CopyDirectory(NestedCopies)
  \/ MoveDirectory({MoveSource}, NestedDestinations)
  \/ MoveDirectoryP3({MoveSource}, NestedDestinations)

SpecNested == InitNested /\ [][NextNested]_vars

\* the destination of the request lies inside its source
DestInsideSource ==
  startsWith(resolve(call.destination), resolve(call.source) \o <<Sep>>)

DestIsSource == resolve(call.destination) = resolve(call.source)

\* C16: copy_directory with a destination nested inside the source, and
\* move_directory with a destination that is the source or nested inside it,
\* end in an error with nothing changed; a destination that is only a
\* string-prefix sibling of the source is not rejected by this check.
C16_DestinationInsideSourceIsRejected ==
  /\ call.op = "copy_directory" /\ DestInsideSource => result.isError /\ fs = pre
  /\ IsMoveCall /\ (DestInsideSource \/ DestIsSource) => result.isError /\ fs = pre
  /\ (call.op = "copy_directory" \/ IsMoveCall)
       /\ resolve(call.destination) = SiblingDest
       => ~(result.isError /\ result.error = "IntoItself")

----------------------------------------------------------------------------
(* SpecSearch: one search_files request on /r, whose subdirectory k may    *)
(* hold a symbolic link l back to /r                                       *)

SearchRoot == <<"/", "r">>
SearchSub == pathJoin(SearchRoot, NameK)
SearchLink == pathJoin(SearchSub, <<"l">>)

\* file contents: two lines with the letter T, one, none
TwoHits == <<"T", "\n", "T">>
OneHit == <<"T">>
NoHit == <<"n">>

\* the content query: the letter in lower case
QueryT == <<"t">>

\* files x and y of /r, and its subdirectory k: absent, empty, holding the
\* link, or holding the link and a file x
SearchTrees ==
  { (SearchRoot :> DirNode)
    @@ (pathJoin(SearchRoot, NameX) :> FileNode(x, 0))
    @@ (IF y = <<>> THEN <<>> ELSE (pathJoin(SearchRoot, NameY) :> FileNode(y, 0)))
    @@ (CASE k = "absent" -> <<>>
          [] k = "empty"  -> (SearchSub :> DirNode)
          [] k = "link"   -> (SearchSub :> DirNode) @@ (SearchLink :> LinkNode(SearchRoot))
          [] k = "full"   -> (SearchSub :> DirNode) @@ (SearchLink :> LinkNode(SearchRoot))
                             @@ (pathJoin(SearchSub, NameX) :> FileNode(OneHit, 0)))
    : x \in {TwoHits, OneHit, NoHit}, y \in {<<>>, OneHit, NoHit},
      k \in {"absent", "empty", "link", "full"} }

InitSearch ==
  /\ allowedDirectories = <<SearchRoot>>
  /\ \E t \in SearchTrees : fs = t @@ EmptyFs
  /\ call = Idle
  /\ result = NoResult
  /\ pre = fs
  /\ log = {}

SearchRequests ==
  SearchArgs({Undef, Some(SearchLink)}, {Undef, Some(NameX)}, {Undef, Some(QueryT)},
             {Undef}, {Undef, Some(3)}, {Undef, Some(2)}, EntryOrders)

NextSearch == SearchFiles(SearchRequests)

SpecSearch == InitSearch /\ [][NextSearch]_vars

----------------------------------------------------------------------------
(* Claims about search_files                                               *)

IsSearchCall == call.op = "search_files"

\* the directory searched, as a canonical path
SearchBase ==
  realpathOf(pre, resolve(IF TruthyStr(call.directory) THEN call.directory[1]
                          ELSE allowedDirectories[1]))

SearchDepthLimit == IF TruthyNum(call.max_depth) THEN call.max_depth[1] ELSE 10
SearchLimit == IF TruthyNum(call.max_results) THEN call.max_results[1] ELSE 100

HitsOf(r) == IF r.matches = Undef THEN 0 ELSE Len(r.matches[1])

\* some line of the file holds the query text
HasMatchingLine(p) ==
  LET lines == split(pre[p].data, "\n") IN
  \E i \in 1..Len(lines) :
    IF call.case_sensitive THEN includes(lines[i], call.content[1])
    ELSE includes(toLowerCase(lines[i]), toLowerCase(call.content[1]))

\* the files of the searched tree that pass the name filter, within the depth
\* limit, and have a matching line
MatchingFiles ==
  {p \in subtree(pre, SearchBase) :
     /\ isFile(pre, p)
     /\ DepthBelow(SearchBase, dirname(p)) <= SearchDepthLimit
     /\ call.include_hidden \/ ~startsWith(basename(p), <<".">>)
     /\ TruthyStr(call.pattern) =>
          GlobMatch(call.pattern[1], basename(p), ~call.case_sensitive)
     /\ HasMatchingLine(p)}

\* C18: with a content query, search returns exactly the files that pass the
\* filters and have at least one matching line: every returned entry is a file
\* with a content match, and (when the result limit was not reached) every
\* such file is returned.
C18_ContentSearchReturnsExactlyMatchingFiles ==
  IsSearchCall /\ TruthyStr(call.content) /\ ~result.isError =>
    /\ \A i \in 1..Len(result.results) :
         result.results[i].type = "file" /\ HitsOf(result.results[i]) > 0
    /\ Len(result.results) < SearchLimit =>
         \A p \in MatchingFiles :
           \E i \in 1..Len(result.results) :
             result.results[i].file = relative(SearchBase, p)

\* a is ranked no later than b: more content hits first, and on a tie the
\* ascending lexical order of the relative paths
RankedBefore(a, b) ==
  \/ HitsOf(a) > HitsOf(b)
  \/ HitsOf(a) = HitsOf(b) /\ localeCompare(a.file, b.file) <= 0

\* C19: the entries of a search are returned in rank order: entries with
\* content hits before entries without, more hits first, ties by ascending
\* lexical order of the relative path.
C19_ResultsAreInRankOrder ==
  IsSearchCall /\ ~result.isError =>
    \A i \in 1..Len(result.results) : \A j \in 1..Len(result.results) :
      i < j => RankedBefore(result.results[i], result.results[j])

\* C20: on a tree with a symbolic link back to an ancestor directory the
\* search is answered, lists no canonical directory twice, and returns no
\* relative path twice.
C20_SearchListsEachDirectoryOnce ==
  IsSearchCall =>
    /\ result.kind \in {"success", "error"}
    /\ \A e \in log : e[1] # "listedAgain"
    /\ \A i \in 1..Len(result.results) : \A j \in 1..Len(result.results) :
         result.results[i].file = result.results[j].file => i = j

\* the search starts at the link /r/k/l, lists /r through it and /r/k below
\* it, and returns k and the files of both
C20_Witness ==
  /\ IsSearchCall /\ ~result.isError
  /\ call.directory = Some(SearchLink)
  /\ call.pattern = Undef /\ call.content = Undef /\ call.max_results = Undef
  /\ isFile(pre, pathJoin(SearchSub, NameX))
  /\ <<"listed", SearchRoot>> \in log /\ <<"listed", SearchSub>> \in log
  /\ \E i \in 1..Len(result.results) : result.results[i].file = NameK
  /\ \E i \in 1..Len(result.results) : result.results[i].file = pathJoin(NameK, NameX)
  /\ \E i \in 1..Len(result.results) : result.results[i].file = NameX

----------------------------------------------------------------------------
(* SpecQuery: one search_files request whose content query is the letter t *)
(* or the text T( , which is no regular expression                         *)

QueryParen == <<"T", "(">>

\* a line that holds the text T( literally
ParenLine == <<"a", "T", "(">>

QueryTrees ==
  { (SearchRoot :> DirNode)
    @@ (pathJoin(SearchRoot, NameX) :> FileNode(x, 0))
    @@ (IF y = <<>> THEN <<>> ELSE (pathJoin(SearchRoot, NameY) :> FileNode(y, 0)))
    : x \in {ParenLine, OneHit, NoHit}, y \in {<<>>, ParenLine, OneHit} }

InitQuery ==
  /\ allowedDirectories = <<SearchRoot>>
  /\ \E t \in QueryTrees : fs = t @@ EmptyFs
  /\ call = Idle
  /\ result = NoResult
  /\ pre = fs
  /\ log = {}

QueryRequests ==
  SearchArgs({Undef}, {Undef, Some(NameX)}, {Some(QueryT), Some(QueryParen)},
             {Undef}, {Undef}, {Undef}, EntryOrders)

NextQuery == SearchFiles(QueryRequests)

SpecQuery == InitQuery /\ [][NextQuery]_vars

\* C21: a content query that is not a valid regular expression does not fail
\* or empty the search: every file that passes the filters and holds the query
\* text literally is returned.
C21_InvalidRegexFallsBackToLiteral ==
  IsSearchCall /\ call.content = Some(QueryParen) =>
    /\ ~result.isError
    /\ \A p \in MatchingFiles :
         \E i \in 1..Len(result.results) :
           result.results[i].file = relative(SearchBase, p)

----------------------------------------------------------------------------
(* Further claims about edit_file_patch                                    *)

\* the request is one valid Insert edit, and the file was written
IsSingleInsert ==
  /\ IsPatchCall
  /\ Len(call.edits) = 1
  /\ call.edits[1].type = "insert"
  /\ call.edits[1].after_line # Undef
  /\ call.edits[1].after_line[1] \in 0..NumLines
  /\ TruthyStr(call.edits[1].content)
  /\ ~result.isError
  /\ <<"writeFile", PatchFile>> \in log

\* C22: an Insert edit with after_line = k, applied alone to a file of n lines,
\* puts its content immediately after original line k: first for k = 0,
\* between lines k and k + 1 for 0 < k < n, last for k = n.
C22_InsertGoesAfterLineK ==
  IsSingleInsert =>
    LET k == call.edits[1].after_line[1] IN
    split(fs[PatchFile].data, "\n")
      = SubSeq(FileLines, 1, k) \o <<call.edits[1].content[1]>>
          \o SubSeq(FileLines, k + 1, NumLines)

\* the request is one Replace edit whose old text occurs in the line it names,
\* and the file was written
IsSingleReplaceOfPresentText ==
  /\ IsPatchCall
  /\ Len(call.edits) = 1
  /\ call.edits[1].type = "replace"
  /\ call.edits[1].line # Undef /\ call.edits[1].line[1] \in 1..NumLines
  /\ TruthyStr(call.edits[1].old) /\ TruthyStr(call.edits[1].new)
  /\ includes(FileLines[call.edits[1].line[1]], call.edits[1].old[1])
  /\ ~result.isError
  /\ <<"writeFile", PatchFile>> \in log

\* C29: for a Replace edit whose old text occurs in the addressed line, the
\* file written is the one the same request writes with the other value of
\* validate_content.
C29_ValidateContentDoesNotChangeTheLine ==
  IsSingleReplaceOfPresentText =>
    split(fs[PatchFile].data, "\n")
      = applyEdits(FileLines, call.edits, ~call.validate_content).lines

(* A further claim about move_directory *)
\* C30: when the destination of move_directory exists and is not a directory,
\* the call returns an error and changes nothing, for both values of
\* merge_existing and every source tree (one holding only empty
\* subdirectories included).
C30_NonDirectoryDestinationFailsMove ==
  IsMoveCall /\ isDirectory(pre, MoveSrc)
    /\ exists(pre, MoveDst) /\ ~isDirectory(pre, MoveDst) =>
    result.isError /\ fs = pre

(* Further claims about copy_directory *)
\* the directories that did not exist before the call and exist after it
DirectoriesNewlyCreated == {d \in DOMAIN fs : isDirectory(fs, d) /\ ~exists(pre, d)}

\* C26: the directoriesCreated statistic of a successful copy_directory counts
\* exactly the directories that did not exist before the call and were
\* created by it.
C26_DirectoriesCreatedCountsNewDirectories ==
  IsCopyCall /\ ~result.isError =>
    result.stats.directoriesCreated = Cardinality(DirectoriesNewlyCreated)

----------------------------------------------------------------------------
(* SpecGlob: the two matchesPattern functions applied to names and patterns *)

MaxNameLen == 3
MaxPatternLen == 2

\* names hold letters of both cases, a dot and a line feed; patterns hold
\* letters, the two wildcards and a regular-expression metacharacter
NameChars == {"a", "A", "b", ".", "\n"}
PatternChars == {"a", "A", "*", "?", "."}

GlobNames == SeqsUpTo(NameChars, MaxNameLen) \ {<<>>}
GlobPatterns == SeqsUpTo(PatternChars, MaxPatternLen) \ {<<>>}

InitGlob ==
  /\ allowedDirectories = <<>>
  /\ fs = EmptyFs
  /\ call = Idle
  /\ result = NoResult
  /\ pre = fs
  /\ log = {}

MatchResponse(matched) ==
  [isError |-> FALSE, kind |-> "match", error |-> NoErr, detail |-> NoErr,
   summary |-> <<>>, matched |-> matched]

\* SearchFilesTool.matchesPattern(fileName, pattern, caseSensitive)
SearchMatches(names, patterns) ==
  /\ call.op = "idle"
  /\ \E name \in names, pattern \in patterns, caseSensitive \in BOOLEAN :
       /\ call' = [op |-> "search_matchesPattern", fileName |-> name,
                   pattern |-> pattern, ignoreCase |-> ~caseSensitive]
       /\ result' = MatchResponse(searchMatchesPattern(name, Some(pattern),
                                                       caseSensitive))
  /\ UNCHANGED <<allowedDirectories, fs, pre, log>>

\* CopyDirectoryTool.matchesPattern(fileName, pattern)
CopyMatches(names, patterns) ==
  /\ call.op = "idle"
  /\ \E name \in names, pattern \in patterns :
       /\ call' = [op |-> "copy_matchesPattern", fileName |-> name,
                   pattern |-> pattern, ignoreCase |-> TRUE]
       /\ result' = MatchResponse(copyMatchesPattern(name, pattern))
  /\ UNCHANGED <<allowedDirectories, fs, pre, log>>

NextGlob ==
  \/ SearchMatches(GlobNames, GlobPatterns)
  \/ CopyMatches(GlobNames, GlobPatterns)

SpecGlob == InitGlob /\ [][NextGlob]_vars

IsMatchCall == call.op \in {"search_matchesPattern", "copy_matchesPattern"}

\* C25: a name pattern matches a name iff the whole name matches the glob (*
\* any run of characters, ? exactly one character, every other character
\* itself), letter case ignored unless case_sensitive is set and always
\* ignored by copy patterns.
C25_PatternMatchesIffGlobMatches ==
  IsMatchCall =>
    result.matched = GlobMatch(call.pattern, call.fileName, call.ignoreCase)

\* the same for names that hold no line terminator
GlobAgreesWithoutLineTerminators ==
  IsMatchCall /\ (\A i \in 1..Len(call.fileName) :
                    call.fileName[i] \notin LineTerminators) =>
    result.matched = GlobMatch(call.pattern, call.fileName, call.ignoreCase)

----------------------------------------------------------------------------
(* SpecWalk: one copy_directory or search_files request with a depth limit, *)
(* on a tree two directories deep or holding a directory that cannot be     *)
(* listed                                                                   *)

WalkRoot == <<"/", "r">>
WalkSource == <<"/", "r", "/", "s">>
WalkDest == <<"/", "r", "/", "d">>
NameJ == <<"j">>
WalkSub == pathJoin(WalkSource, NameK)
WalkDeep == pathJoin(WalkSub, NameJ)

\* /r/s with or without the file a.t, and with the subdirectory k absent,
\* empty, holding a file, holding the directory j with a file, or unreadable
WalkTrees ==
  { (WalkSource :> DirNode)
    @@ (IF a THEN (pathJoin(WalkSource, NameA) :> FileAt(FromSource, Earlier)) ELSE <<>>)
    @@ (CASE k = "absent" -> <<>>
          [] k = "empty"  -> (WalkSub :> DirNode)
          [] k = "full"   -> (WalkSub :> DirNode)
                             @@ (pathJoin(WalkSub, NameA) :> FileAt(FromSource, Earlier))
          [] k = "deep"   -> (WalkSub :> DirNode) @@ (WalkDeep :> DirNode)
                             @@ (pathJoin(WalkDeep, NameA) :> FileAt(FromSource, Earlier))
          [] k = "locked" -> (WalkSub :> LockedDirNode)
                             @@ (pathJoin(WalkSub, NameA) :> FileAt(FromSource, Earlier)))
    : a \in BOOLEAN, k \in {"absent", "empty", "full", "deep", "locked"} }

InitWalk ==
  /\ allowedDirectories = <<WalkRoot>>
  /\ \E t \in WalkTrees : fs = t @@ (WalkRoot :> DirNode) @@ EmptyFs
  /\ call = Idle
  /\ result = NoResult
  /\ pre = fs
  /\ log = {}

WalkDepths == {Undef, Some(0), Some(1)}

WalkCopies ==
  CopyArgs({WalkSource}, {WalkDest}, {FALSE}, {<<>>}, {<<>>}, WalkDepths, EntryOrders)

WalkSearches ==
  SearchArgs({Some(WalkSource)}, {Undef}, {Undef}, {Undef}, WalkDepths, {Undef},
             EntryOrders)

NextWalk ==
  \/ CopyDirectory(WalkCopies)
  \/ SearchFiles(WalkSearches)

SpecWalk == InitWalk /\ [][NextWalk]_vars

IsWalkCall == IsCopyCall \/ IsSearchCall

\* the directory the traversal starts from: depth 0
WalkBase == IF IsCopyCall THEN CopySrc ELSE SearchBase

\* the directories that cannot be listed
LockedDirs == {d \in DOMAIN pre : isDirectory(pre, d) /\ ~pre[d].readable}

\* the directories deeper than the max_depth of the request
DirsBeyondLimit ==
  {d \in subtree(pre, WalkBase) :
     isDirectory(pre, d) /\ DepthBelow(WalkBase, d) > call.max_depth[1]}

\* C23: with the base directory at depth 0 and each descent adding 1, no
\* directory deeper than max_depth is listed (searched) or created at the
\* destination, and the limit does not make the operation fail.
C23_NothingBeyondMaxDepth ==
  IsWalkCall /\ call.max_depth # Undef /\ LockedDirs = {} =>
    /\ ~result.isError
    /\ \A d \in DirsBeyondLimit :
         /\ <<"readdir", d>> \notin log
         /\ IsCopyCall => ~exists(fs, CopyDestOf(d))

\* the regular files next to a directory that cannot be listed
SiblingFilesOfLocked ==
  {p \in DOMAIN pre : isFile(pre, p) /\ \E d \in LockedDirs : dirname(p) = dirname(d)}

\* C24: a subdirectory that cannot be listed does not make search_files or
\* copy_directory fail, and the entries next to it are still processed: the
\* files are copied, or returned by the search.
C24_UnreadableSubdirectoryIsSkipped ==
  IsWalkCall /\ LockedDirs # {} =>
    /\ ~result.isError
    /\ \A p \in SiblingFilesOfLocked :
         IF IsCopyCall
         THEN isFile(fs, CopyDestOf(p))
         ELSE \E i \in 1..Len(result.results) :
                result.results[i].file = relative(SearchBase, p)

----------------------------------------------------------------------------
(* SpecRace: two edit_file_patch invocations on the same file, each taking *)
(* its read step and its write step when the event loop gets to it         *)

\* execute up to the efficiency gate: stat and readFile, then the checks made
\* before the next await; kind "reading" says the invocation goes on
patchBegin(f, args) ==
  LET st == Start(f)
      resolvedPath == resolve(args.path)
      s1 == fsStat(st, resolvedPath)
      s2 == fsReadFile(s1, resolvedPath)
      lines == split(s2.fs[resolvedPath].data, "\n")
      size  == Len(s2.fs[resolvedPath].data) + s2.fs[resolvedPath].pad
      guidance == analyzeUsageEfficiency(size, lines, args.edits)
  IN IF ~isPathAllowed(resolvedPath)
     THEN [st |-> st, result |-> ErrorResponse("AccessDenied", NoErr), lines |-> <<>>]
     ELSE IF s1.err # NoErr
     THEN [st |-> caught(s1), result |-> ErrorResponse("NotFound", s1.err), lines |-> <<>>]
     ELSE IF s2.err # NoErr
     THEN [st |-> s2, result |-> ErrorResponse("IOError", s2.err), lines |-> <<>>]
     ELSE IF args.check_efficiency
     THEN [st |-> s2, result |-> Response("guidance", <<>>), lines |-> <<>>]
     ELSE IF ~args.force_execution /\ guidance = "not_recommended"
     THEN [st |-> s2, result |-> Response("efficiency_warning", <<>>), lines |-> <<>>]
     ELSE IF guidance = "acceptable" /\ ~args.force_execution
     THEN [st |-> s2, result |-> Response("efficiency_note", <<>>), lines |-> <<>>]
     ELSE [st |-> s2, result |-> Response("reading", <<>>), lines |-> lines]

\* a bug execute could have: the edits are applied to what the file holds when
\* the write is made
linesReadAgain(inv, f) == split(f[resolve(inv.args.path)].data, "\n")

\* the lines execute applies the edits to: the ones it read, whatever the file
\* holds by the time of the write
linesToPatch(inv, f) == inv.lines

Invocations == {1, 2}

IdleInvocation == [pc |-> "idle", args |-> <<>>, lines |-> <<>>]

\* the edits the two requests are made of; the last one names a line the file
\* does not have
RaceEdits ==
  { Replace(Some(1), Undef, Some(NewText)),
    Replace(Some(2), Undef, Some(NewText)),
    Insert(Some(NumLines), Some(InsText)),
    Delete(Some(NumLines)),
    Replace(Some(NumLines + 1), Undef, Some(NewText)) }

RaceBatches == {<<e>> : e \in RaceEdits}

InitRace ==
  /\ allowedDirectories = <<PatchRoot>>
  /\ fs = PatchFs(0)
  /\ call = [op |-> "edit_file_patch_pair",
             inv |-> [i \in Invocations |-> IdleInvocation], trace |-> <<>>]
  /\ result = [isError |-> FALSE, kind |-> "pair",
               results |-> [i \in Invocations |-> NoResult]]
  /\ pre = fs
  /\ log = {}

\* invocation i runs from its start to the return of readFile
PatchRead(i, batches) ==
  /\ call.op = "edit_file_patch_pair"
  /\ call.inv[i].pc = "idle"
  /\ \E edits \in batches :
       LET args == [op |-> "edit_file_patch", path |-> PatchFile, edits |-> edits,
                    validate_content |-> FALSE, create_backup |-> FALSE,
                    force_execution |-> TRUE, check_efficiency |-> FALSE]
           r == patchBegin(fs, args)
       IN /\ call' = [call EXCEPT
                        !.inv[i] = [pc |-> IF r.result.kind = "reading"
                                           THEN "read" ELSE "done",
                                    args |-> args, lines |-> r.lines],
                        !.trace = Append(@, <<i, "read">>)]
          /\ result' = [result EXCEPT !.results[i] = r.result]
          /\ fs' = r.st.fs
          /\ log' = log \cup r.st.log
  /\ UNCHANGED <<allowedDirectories, pre>>

\* invocation i runs from the return of readFile to its response
PatchWrite(i) ==
  /\ call.op = "edit_file_patch_pair"
  /\ call.inv[i].pc = "read"
  /\ LET inv == call.inv[i]
         r == patchWrite(Start(fs), inv.args, resolve(inv.args.path),
                         linesToPatch(inv, fs))
     IN /\ call' = [call EXCEPT !.inv[i].pc = "done",
                                !.trace = Append(@, <<i, "write">>)]
        /\ result' = [result EXCEPT !.results[i] = r.result]
        /\ fs' = r.st.fs
        /\ log' = log \cup r.st.log
  /\ UNCHANGED <<allowedDirectories, pre>>

NextRace ==
  \E i \in Invocations :
    \/ PatchRead(i, RaceBatches)
    \/ PatchWrite(i)

SpecRace == InitRace /\ [][NextRace]_vars

IsRace == call.op = "edit_file_patch_pair"

\* both invocations returned success
RaceBothSucceeded ==
  /\ IsRace
  /\ \A i \in Invocations :
       call.inv[i].pc = "done" /\ result.results[i].kind = "success"

\* both invocations read the file before either wrote it
BothReadBeforeEitherWrote ==
  /\ Len(call.trace) = 4
  /\ call.trace[1][2] = "read" /\ call.trace[2][2] = "read"

EarlierWriter == call.trace[3][1]
LaterWriter == call.trace[4][1]

\* what the file holds when only the edits of invocation i are made to the
\* original content
OnlyEditsOf(i) ==
  applyEdits(FileLines,
             sortEdits(validateEdits(call.inv[i].args.edits, NumLines).validated),
             call.inv[i].args.validate_content).lines

\* C27: two patch invocations on one file are not serialized: when both read
\* the original content before either writes, both report success and the file
\* ends up holding the later writer's edits only, the earlier writer's edits
\* being lost.
C27_LaterWriterOverwritesEarlier ==
  RaceBothSucceeded /\ BothReadBeforeEitherWrote =>
    split(fs[PatchFile].data, "\n") = OnlyEditsOf(LaterWriter)

\* the earlier writer replaced line 1 and the later one line 2: both succeeded
\* and line 1 is the original line
C27_Witness ==
  /\ RaceBothSucceeded /\ BothReadBeforeEitherWrote
  /\ call.inv[EarlierWriter].args.edits = <<Replace(Some(1), Undef, Some(NewText))>>
  /\ call.inv[LaterWriter].args.edits = <<Replace(Some(2), Undef, Some(NewText))>>
  /\ split(fs[PatchFile].data, "\n") = <<FileLines[1], NewText, FileLines[3]>>

----------------------------------------------------------------------------
(* SpecCopyRace: two copy_file invocations with the same destination, each *)
(* taking its checks and its copy when the event loop gets to it           *)

\* CopyFileTool.execute up to the return of fs.access: the sandbox checks, the
\* source check and, without overwrite, the check of the destination; kind
\* "checked" says the invocation goes on
copyFileChecks(f, args) ==
  LET st == Start(f)
      resolvedSource      == resolve(args.source)
      resolvedDestination == resolve(args.destination)
      s1 == fsStat(st, resolvedSource)
      s2 == IF args.overwrite THEN caught(s1) ELSE fsAccess(caught(s1), resolvedDestination)
  IN IF ~isPathAllowed(resolvedSource) \/ ~isPathAllowed(resolvedDestination)
     THEN [st |-> st, result |-> ErrorResponse("AccessDenied", NoErr)]
     ELSE IF s1.err # NoErr \/ ~isFile(s1.fs, realpathOf(s1.fs, resolvedSource))
     THEN [st |-> caught(s1), result |-> ErrorResponse("NotFound", s1.err)]
     ELSE IF ~args.overwrite /\ s2.err = NoErr
     THEN [st |-> s2, result |-> ErrorResponse("Conflict", NoErr)]
     ELSE [st |-> caught(s2), result |-> Response("checked", <<>>)]

\* CopyFileTool.execute from the mkdir on: mkdir of the parent, copyFile, stat
copyFileCopies(f, args) ==
  LET resolvedSource      == resolve(args.source)
      resolvedDestination == resolve(args.destination)
      s1 == fsMkdirRecursive(Start(f), dirname(resolvedDestination))
      s2 == fsCopyFile(s1, resolvedSource, resolvedDestination)
      s3 == fsStat(s2, resolvedDestination)
  IN IF s1.err # NoErr THEN [st |-> s1, result |-> ErrorResponse("IOError", s1.err)]
     ELSE IF s2.err # NoErr THEN [st |-> s2, result |-> ErrorResponse("IOError", s2.err)]
     ELSE IF s3.err # NoErr THEN [st |-> s3, result |-> ErrorResponse("IOError", s3.err)]
     ELSE [st |-> s3, result |-> Response("success", <<>>)]

RaceRoot == <<"/", "r">>
RaceSources == {<<"/", "r", "/", "a">>, <<"/", "r", "/", "b">>}
RaceDest == <<"/", "r", "/", "d">>

\* /r holds the files a and b with different content; d is absent or a file
RaceTrees ==
  { (<<"/", "r", "/", "a">> :> FileAt(FromSource, Earlier))
    @@ (<<"/", "r", "/", "b">> :> FileAt(FromSource \o FromSource, Earlier))
    @@ (IF d THEN (RaceDest :> FileAt(FromDest, Earlier)) ELSE <<>>)
    @@ (RaceRoot :> DirNode) @@ EmptyFs
    : d \in BOOLEAN }

CopyFileRequests ==
  { [op |-> "copy_file", source |-> s, destination |-> RaceDest, overwrite |-> o]
    : s \in RaceSources, o \in BOOLEAN }

InitCopyRace ==
  /\ allowedDirectories = <<RaceRoot>>
  /\ fs \in RaceTrees
  /\ call = [op |-> "copy_file_pair",
             inv |-> [i \in Invocations |-> IdleInvocation], trace |-> <<>>]
  /\ result = [isError |-> FALSE, kind |-> "pair",
               results |-> [i \in Invocations |-> NoResult]]
  /\ pre = fs
  /\ log = {}

\* invocation i runs from its start to the return of fs.access
CopyFileBegin(i, argSet) ==
  /\ call.op = "copy_file_pair"
  /\ call.inv[i].pc = "idle"
  /\ \E args \in argSet :
       LET r == copyFileChecks(fs, args)
       IN /\ call' = [call EXCEPT
                        !.inv[i] = [pc |-> IF r.result.kind = "checked"
                                           THEN "checked" ELSE "done",
                                    args |-> args, lines |-> <<>>],
                        !.trace = Append(@, <<i, "check">>)]
          /\ result' = [result EXCEPT !.results[i] = r.result]
          /\ fs' = r.st.fs
          /\ log' = log \cup r.st.log
  /\ UNCHANGED <<allowedDirectories, pre>>

\* invocation i runs from the return of fs.access to its response
CopyFileFinish(i) ==
  /\ call.op = "copy_file_pair"
  /\ call.inv[i].pc = "checked"
  /\ LET r == copyFileCopies(fs, call.inv[i].args)
     IN /\ call' = [call EXCEPT !.inv[i].pc = "done",
                                !.trace = Append(@, <<i, "copy">>)]
        /\ result' = [result EXCEPT !.results[i] = r.result]
        /\ fs' = r.st.fs
        /\ log' = log \cup r.st.log
  /\ UNCHANGED <<allowedDirectories, pre>>

NextCopyRace ==
  \E i \in Invocations :
    \/ CopyFileBegin(i, CopyFileRequests)
    \/ CopyFileFinish(i)

SpecCopyRace == InitCopyRace /\ [][NextCopyRace]_vars

\* invocation i, made with overwrite = false, takes its copy step
CopiesWithoutOverwrite(i) ==
  /\ call.inv[i].pc = "checked"
  /\ call'.inv[i].pc = "done"
  /\ ~call.inv[i].args.overwrite

\* C28: with overwrite = false a copy never replaces the content of a file
\* that exists at the destination path, even when another invocation created
\* that file between the existence check and the copy.
C28_NoOverwriteNeverReplacesExistingFile ==
  [][ \A i \in Invocations :
        CopiesWithoutOverwrite(i) /\ isFile(fs, RaceDest) =>
          fs'[RaceDest].data = fs[RaceDest].data ]_vars


============================================================================
